---- MODULE Spec2Model ----
(***************************************************************************)
(* Model of the alacritty multiplexer core: rect math, the binary layout   *)
(* tree, the window (tab) that owns a tree, and command dispatch.          *)
(*                                                                         *)
(* The state machines of this module:                                      *)
(*   Spec        one MuxWindow driven through its public methods           *)
(*   SpecLayout  one layout tree driven through split.rs / resize.rs and   *)
(*               measured with calculate_rects                             *)
(*   SpecCmd     a MuxState driven through execute_command                 *)
(*   SpecSrv     a ServerState driven through handle_message               *)
(*   SpecInput   the leader-key state machine of mux_input.rs              *)
(*   SpecReader  a MessageReader reassembling frames from chunked reads    *)
(*   SpecSess    a Session under its window methods                        *)
(*   SpecLife    MuxServer start, accept and teardown over the socket file *)
(*   SpecNet     a MuxServer calling process_client on several clients     *)
(*   SpecCodec   encode_message and decode_message on single messages      *)
(*   SpecRace    processes starting and dropping servers on one file system*)
(* Each machine leaves the variables of the other machines untouched.      *)
(***************************************************************************)
EXTENDS Integers, Sequences, FiniteSets, TLC

VARIABLES
    win,            \* Spec: the MuxWindow under test
    last,           \* Spec: record of the last method call (arguments, result, window before)
    reportedEmpty,  \* Spec: close_pane has returned Ok(true) at least once
    everIds,        \* Spec: every pane id that has been a leaf of win.layout
    closedIds,      \* Spec: every pane id for which close_pane returned Ok
    tree,           \* SpecLayout: the layout tree, as Option<LayoutNode>
    fresh,          \* SpecLayout: next unused pane id of the caller
    calc,           \* SpecLayout: last calculate_rects call (area and result)
    mux,            \* SpecCmd: MuxState (session and PTY registry)
    total_area,     \* SpecCmd: the fixed screen area
    shown,          \* SpecCmd: last pane_rects result for the active window
    server,         \* SpecSrv: the ServerState
    hcall,          \* SpecSrv: record of the last call (message kind, outcome, responses)
    istate,         \* SpecInput: the MuxInputState
    clock,          \* SpecInput: the monotonic clock, in milliseconds
    kcall,          \* SpecInput: record of the last process_mux_key call
    wire,           \* SpecReader: the messages whose frames the sender writes
    delivered,      \* SpecReader: number of bytes of the stream handed out by reads
    mreader,        \* SpecReader: the MessageReader
    got,            \* SpecReader: the messages read_message has returned
    rcall,          \* SpecReader: record of the last read_message call
    sess,           \* SpecSess: the Session under test
    scall,          \* SpecSess: record of the last Session method call
    files,          \* SpecLife: the socket paths that exist in the file system
    msrv,           \* SpecLife: the running MuxServer, if any
    conns,          \* SpecLife: the connections the server has accepted
    lcall,          \* SpecLife: record of the last step of the server's life
    clients,        \* SpecNet: the connections, each with the bytes in flight to it
    sent,           \* SpecNet: number of frames the clients have written
    dispatched,     \* SpecNet: the commands handed to handle_message, in order
    pcall,          \* SpecNet: record of the last process_client call
    ccall,          \* SpecCodec: record of the last encode and decode
    sockfs,         \* SpecRace: the socket files, each with the process bound to it
    procs           \* SpecRace: each server process's position and socket path

vars == <<win, last, reportedEmpty, everIds, closedIds,
          tree, fresh, calc, mux, total_area, shown,
          server, hcall, istate, clock, kcall,
          wire, delivered, mreader, got, rcall,
          sess, scall, files, msrv, conns, lcall,
          clients, sent, dispatched, pcall, ccall, sockfs, procs>>

winVars    == <<win, last, reportedEmpty, everIds, closedIds>>
layoutVars == <<tree, fresh, calc>>
cmdVars    == <<mux, total_area, shown>>
srvVars    == <<server, hcall>>
inputVars  == <<istate, clock, kcall>>
readerVars == <<wire, delivered, mreader, got, rcall>>
sessVars   == <<sess, scall>>
lifeVars   == <<files, msrv, conns, lcall>>
netVars    == <<clients, sent, dispatched, pcall>>
codecVars  == <<ccall>>
raceVars   == <<sockfs, procs>>
\* the variables of the machines of the client-server side
ioVars     == <<srvVars, inputVars, readerVars, sessVars, lifeVars, netVars, codecVars, raceVars>>

(***************************************************************************)
(* Bounds of the model.                                                    *)
(***************************************************************************)
\* MuxWindow::split is not driven once next_pane_id has reached this value.
MaxPaneId == 4
\* The layout machine stops splitting at this many leaves.
MaxLeaves == 3
\* Areas have width and height in 2..MaxDim.
MaxDim == 3
\* i16 deltas beyond this magnitude are represented by this magnitude
\* (|delta| * 0.05 >= 2.0 drives every ratio of [0.1, 0.9] into the clamp).
DeltaSat == 40

(***************************************************************************)
(* Option<T>: None is the empty sequence, Some(x) the one-element one.     *)
(***************************************************************************)
None == << >>
Some(x) == << x >>
IsSome(o) == Len(o) = 1
Unwrap(o) == o[1]

Min(a, b) == IF a < b THEN a ELSE b
Max(a, b) == IF a > b THEN a ELSE b

(***************************************************************************)
(* f32.  A finite f32 is represented by the integer v * 2^28; every f32 of *)
(* magnitude in [2^-5, 2) is such an integer.  An arithmetic result is     *)
(* rounded to 24 significant bits, ties to even, as IEEE-754 does.         *)
(***************************************************************************)
F32One == 2 ^ 28

RECURSIVE Log2Floor(_)
Log2Floor(p) == IF p < 2 THEN 0 ELSE 1 + Log2Floor(p \div 2)

RoundF32Mag(p) ==
    IF p < 2 ^ 24 THEN p
    ELSE LET u == 2 ^ (Log2Floor(p) - 23)
             q == p \div u
             r == p % u
         IN  IF 2 * r < u THEN q * u
             ELSE IF 2 * r > u THEN (q + 1) * u
             ELSE IF q % 2 = 0 THEN q * u ELSE (q + 1) * u

RoundF32(p) == IF p < 0 THEN 0 - RoundF32Mag(0 - p) ELSE RoundF32Mag(p)

F32Add(a, b) == RoundF32(a + b)
F32Sub(a, b) == RoundF32(a - b)
\* n is an integer converted exactly to f32, r is an f32
F32MulInt(n, r) == RoundF32(n * r)
\* f32::clamp for non-NaN operands
F32Clamp(x, lo, hi) == IF x < lo THEN lo ELSE IF x > hi THEN hi ELSE x
\* `as u16` on an f32: truncation toward zero, saturating
F32AsU16(p) == IF p <= 0 THEN 0 ELSE Min(65535, p \div F32One)

U16Max == 65535
saturating_add(a, b) == Min(U16Max, a + b)
saturating_sub(a, b) == Max(0, a - b)

\* the f32 literals of the source
RatioHalf == 134217728
MIN_RATIO == 26843546
MAX_RATIO == 241591904
ResizeStep == 13421773

(***************************************************************************)
(* rect.rs                                                                 *)
(***************************************************************************)
Rect(x, y, width, height) == [x |-> x, y |-> y, width |-> width, height |-> height]

\* split_horizontal with the bottom height taken from the unclamped top height
split_horizontal_unclamped_rest(self, ratio) ==
    LET top_h0   == F32AsU16(F32MulInt(self.height, F32Clamp(ratio, 0, F32One)))
        top_h    == Min(Max(top_h0, 1), saturating_sub(self.height, 1))
        bottom_h == saturating_sub(self.height, top_h0)
    IN  << Rect(self.x, self.y, self.width, top_h),
           Rect(self.x, saturating_add(self.y, top_h), self.width, bottom_h) >>

split_horizontal(self, ratio) ==
    LET top_h0   == F32AsU16(F32MulInt(self.height, F32Clamp(ratio, 0, F32One)))
        top_h    == Min(Max(top_h0, 1), saturating_sub(self.height, 1))
        bottom_h == saturating_sub(self.height, top_h)
    IN  << Rect(self.x, self.y, self.width, top_h),
           Rect(self.x, saturating_add(self.y, top_h), self.width, bottom_h) >>

\* split_vertical with the right rect not moved past the left one
split_vertical_same_x(self, ratio) ==
    LET left_w0 == F32AsU16(F32MulInt(self.width, F32Clamp(ratio, 0, F32One)))
        left_w  == Min(Max(left_w0, 1), saturating_sub(self.width, 1))
        right_w == saturating_sub(self.width, left_w)
    IN  << Rect(self.x, self.y, left_w, self.height),
           Rect(self.x, self.y, right_w, self.height) >>

\* split_vertical with the right rect keeping the full width
split_vertical_full_width(self, ratio) ==
    LET left_w0 == F32AsU16(F32MulInt(self.width, F32Clamp(ratio, 0, F32One)))
        left_w  == Min(Max(left_w0, 1), saturating_sub(self.width, 1))
    IN  << Rect(self.x, self.y, left_w, self.height),
           Rect(saturating_add(self.x, left_w), self.y, self.width, self.height) >>

split_vertical(self, ratio) ==
    LET left_w0 == F32AsU16(F32MulInt(self.width, F32Clamp(ratio, 0, F32One)))
        left_w  == Min(Max(left_w0, 1), saturating_sub(self.width, 1))
        right_w == saturating_sub(self.width, left_w)
    IN  << Rect(self.x, self.y, left_w, self.height),
           Rect(saturating_add(self.x, left_w), self.y, right_w, self.height) >>

(***************************************************************************)
(* layout.rs                                                               *)
(***************************************************************************)
Direction == {"Horizontal", "Vertical"}

Leaf(pane_id) == [kind |-> "Leaf", pane_id |-> pane_id]
SplitNode(direction, ratio, first, second) ==
    [kind |-> "Split", direction |-> direction, ratio |-> ratio,
     first |-> first, second |-> second]

RECURSIVE find_pane(_, _)
find_pane(self, id) ==
    IF self.kind = "Leaf" THEN self.pane_id = id
    ELSE find_pane(self.first, id) \/ find_pane(self.second, id)

RECURSIVE pane_ids(_)
pane_ids(self) ==
    IF self.kind = "Leaf" THEN << self.pane_id >>
    ELSE pane_ids(self.first) \o pane_ids(self.second)

RECURSIVE pane_count(_)
pane_count(self) ==
    IF self.kind = "Leaf" THEN 1
    ELSE pane_count(self.first) + pane_count(self.second)

\* HashMap::insert: a later insert under the same key replaces the entry
MapInsert(m, k, v) == [i \in DOMAIN m \cup {k} |-> IF i = k THEN v ELSE m[i]]
MapRemove(m, k) == [i \in DOMAIN m \ {k} |-> m[i]]
EmptyMap == [i \in {} |-> 0]

RECURSIVE calculate_rects_inner(_, _, _)
calculate_rects_inner(self, area, out) ==
    IF self.kind = "Leaf" THEN MapInsert(out, self.pane_id, area)
    ELSE LET ab == IF self.direction = "Horizontal"
                   THEN split_horizontal(area, self.ratio)
                   ELSE split_vertical(area, self.ratio)
         IN  calculate_rects_inner(self.second, ab[2],
                 calculate_rects_inner(self.first, ab[1], out))

calculate_rects(self, area) == calculate_rects_inner(self, area, EmptyMap)

(***************************************************************************)
(* split.rs                                                                *)
(***************************************************************************)
Ok(v) == [ok |-> TRUE, val |-> v]
PaneNotFound(id) == [ok |-> FALSE, val |-> <<"PaneNotFound", id>>]

\* SplitResult / CloseResult: the tag and the node carried
Replaced(node) == [tag |-> "Replaced", node |-> node]
Removed(opt)   == [tag |-> "Removed", node |-> opt]
NotFound(node) == [tag |-> "NotFound", node |-> node]

RECURSIVE split_inner(_, _, _, _)
split_inner(node, target, direction, new_id) ==
    IF node.kind = "Leaf" THEN
        IF node.pane_id = target
        THEN Replaced(SplitNode(direction, RatioHalf, Leaf(node.pane_id), Leaf(new_id)))
        ELSE NotFound(node)
    ELSE LET r1 == split_inner(node.first, target, direction, new_id) IN
         IF r1.tag = "Replaced"
         THEN Replaced(SplitNode(node.direction, node.ratio, r1.node, node.second))
         ELSE LET r2 == split_inner(node.second, target, direction, new_id) IN
              IF r2.tag = "Replaced"
              THEN Replaced(SplitNode(node.direction, node.ratio, r1.node, r2.node))
              ELSE NotFound(SplitNode(node.direction, node.ratio, r1.node, r2.node))

split_pane(t, target, direction, new_id) ==
    LET result == split_inner(t, target, direction, new_id) IN
    IF result.tag = "Replaced" THEN Ok(<<result.node, new_id>>)
    ELSE PaneNotFound(target)

\* close_inner that rebuilds a split with an even ratio after a removal below it
RECURSIVE close_inner_resets_ratio(_, _)
close_inner_resets_ratio(node, target) ==
    IF node.kind = "Leaf" THEN
        IF node.pane_id = target THEN Removed(None) ELSE NotFound(node)
    ELSE LET r1 == close_inner_resets_ratio(node.first, target) IN
         IF r1.tag = "Removed" THEN
            IF ~IsSome(r1.node) THEN Removed(Some(node.second))
            ELSE Removed(Some(SplitNode(node.direction, RatioHalf,
                                        Unwrap(r1.node), node.second)))
         ELSE LET r2 == close_inner_resets_ratio(node.second, target) IN
              IF r2.tag = "Removed" THEN
                 IF ~IsSome(r2.node) THEN Removed(Some(r1.node))
                 ELSE Removed(Some(SplitNode(node.direction, RatioHalf,
                                             r1.node, Unwrap(r2.node))))
              ELSE NotFound(SplitNode(node.direction, node.ratio, r1.node, r2.node))

RECURSIVE close_inner(_, _)
close_inner(node, target) ==
    IF node.kind = "Leaf" THEN
        IF node.pane_id = target THEN Removed(None) ELSE NotFound(node)
    ELSE LET r1 == close_inner(node.first, target) IN
         IF r1.tag = "Removed" THEN
            IF ~IsSome(r1.node) THEN Removed(Some(node.second))
            ELSE Removed(Some(SplitNode(node.direction, node.ratio,
                                        Unwrap(r1.node), node.second)))
         ELSE LET r2 == close_inner(node.second, target) IN
              IF r2.tag = "Removed" THEN
                 IF ~IsSome(r2.node) THEN Removed(Some(r1.node))
                 ELSE Removed(Some(SplitNode(node.direction, node.ratio,
                                             r1.node, Unwrap(r2.node))))
              ELSE NotFound(SplitNode(node.direction, node.ratio, r1.node, r2.node))

\* close_pane over close_inner_resets_ratio
close_pane_resets_ratio(t, target) ==
    LET result == close_inner_resets_ratio(t, target) IN
    IF result.tag = "Removed" THEN Ok(result.node) ELSE PaneNotFound(target)

close_pane(t, target) ==
    LET result == close_inner(t, target) IN
    IF result.tag = "Removed" THEN Ok(result.node) ELSE PaneNotFound(target)

(***************************************************************************)
(* resize.rs                                                               *)
(***************************************************************************)
\* resize_inner without the clamp when the target is in the second child
RECURSIVE resize_inner_no_clamp(_, _, _)
resize_inner_no_clamp(node, target, delta) ==
    IF node.kind = "Leaf" THEN [found |-> FALSE, node |-> node]
    ELSE LET in_first  == find_pane(node.first, target)
             in_second == find_pane(node.second, target)
         IN
         IF in_first /\ ~in_second THEN
            [found |-> TRUE,
             node  |-> [node EXCEPT !.ratio =
                           F32Clamp(F32Add(node.ratio, delta), MIN_RATIO, MAX_RATIO)]]
         ELSE IF in_second /\ ~in_first THEN
            [found |-> TRUE,
             node  |-> [node EXCEPT !.ratio = F32Sub(node.ratio, delta)]]
         ELSE LET r1 == resize_inner_no_clamp(node.first, target, delta) IN
              IF r1.found
              THEN [found |-> TRUE, node |-> [node EXCEPT !.first = r1.node]]
              ELSE LET r2 == resize_inner_no_clamp(node.second, target, delta) IN
                   [found |-> r2.found,
                    node  |-> [node EXCEPT !.first = r1.node, !.second = r2.node]]

\* resize_inner returns the found flag and the node as mutated in place
RECURSIVE resize_inner(_, _, _)
resize_inner(node, target, delta) ==
    IF node.kind = "Leaf" THEN [found |-> FALSE, node |-> node]
    ELSE LET in_first  == find_pane(node.first, target)
             in_second == find_pane(node.second, target)
         IN
         IF in_first /\ ~in_second THEN
            [found |-> TRUE,
             node  |-> [node EXCEPT !.ratio =
                           F32Clamp(F32Add(node.ratio, delta), MIN_RATIO, MAX_RATIO)]]
         ELSE IF in_second /\ ~in_first THEN
            [found |-> TRUE,
             node  |-> [node EXCEPT !.ratio =
                           F32Clamp(F32Sub(node.ratio, delta), MIN_RATIO, MAX_RATIO)]]
         ELSE LET r1 == resize_inner(node.first, target, delta) IN
              IF r1.found
              THEN [found |-> TRUE, node |-> [node EXCEPT !.first = r1.node]]
              ELSE LET r2 == resize_inner(node.second, target, delta) IN
                   [found |-> r2.found,
                    node  |-> [node EXCEPT !.first = r1.node, !.second = r2.node]]

\* returns the result and the tree after the call (the tree is borrowed mutably)
resize_pane(t, target, delta) ==
    LET r == resize_inner(t, target, delta) IN
    IF r.found THEN [res |-> Ok(<<>>), tree |-> r.node]
    ELSE [res |-> PaneNotFound(target), tree |-> r.node]

(***************************************************************************)
(* pane.rs, window.rs                                                      *)
(***************************************************************************)
Pane_new(id) == [id |-> id, title |-> ""]

MuxWindow_new(id, name) ==
    [id |-> id, name |-> name,
     layout |-> Leaf(0),
     active_pane |-> 0,
     panes |-> MapInsert(EmptyMap, 0, Pane_new(0)),
     next_pane_id |-> 1,
     zoomed |-> FALSE]

\* MuxWindow::split that does not advance next_pane_id
MuxWindow_split_stale_counter(self, pane_id, dir) ==
    LET new_id == self.next_pane_id
        layout == self.layout
        w2     == [self EXCEPT !.layout = Leaf(0)]
        r      == split_pane(layout, pane_id, dir, new_id)
    IN  IF ~r.ok THEN [win |-> w2, res |-> r]
        ELSE [win |-> [w2 EXCEPT !.layout = r.val[1],
                                  !.panes  = MapInsert(@, r.val[2], Pane_new(r.val[2])),
                                  !.zoomed = FALSE],
              res |-> Ok(r.val[2])]

\* MuxWindow::split that leaves the zoomed flag as it is
MuxWindow_split_keeps_zoom(self, pane_id, dir) ==
    LET new_id == self.next_pane_id
        w1     == [self EXCEPT !.next_pane_id = @ + 1]
        layout == w1.layout
        w2     == [w1 EXCEPT !.layout = Leaf(0)]
        r      == split_pane(layout, pane_id, dir, new_id)
    IN  IF ~r.ok THEN [win |-> w2, res |-> r]
        ELSE [win |-> [w2 EXCEPT !.layout = r.val[1],
                                  !.panes  = MapInsert(@, r.val[2], Pane_new(r.val[2]))],
              res |-> Ok(r.val[2])]

\* each method returns the window after the call and the MuxResult
MuxWindow_split(self, pane_id, dir) ==
    LET new_id == self.next_pane_id
        w1     == [self EXCEPT !.next_pane_id = @ + 1]
        layout == w1.layout
        w2     == [w1 EXCEPT !.layout = Leaf(0)]
        r      == split_pane(layout, pane_id, dir, new_id)
    IN  IF ~r.ok THEN [win |-> w2, res |-> r]
        ELSE [win |-> [w2 EXCEPT !.layout = r.val[1],
                                  !.panes  = MapInsert(@, r.val[2], Pane_new(r.val[2])),
                                  !.zoomed = FALSE],
              res |-> Ok(r.val[2])]

pane_order(self) == pane_ids(self.layout)

\* MuxWindow::close_pane that leaves active_pane as it is
MuxWindow_close_pane_keeps_focus(self, pane_id) ==
    LET layout == self.layout
        w1     == [self EXCEPT !.layout = Leaf(0)]
        r      == close_pane(layout, pane_id)
    IN  IF ~r.ok THEN [win |-> w1, res |-> r]
        ELSE LET w2 == [w1 EXCEPT !.panes = MapRemove(@, pane_id), !.zoomed = FALSE] IN
             IF IsSome(r.val)
             THEN [win |-> [w2 EXCEPT !.layout = Unwrap(r.val)], res |-> Ok(FALSE)]
             ELSE [win |-> w2, res |-> Ok(TRUE)]

\* MuxWindow::close_pane that leaves the metadata of the closed pane
MuxWindow_close_pane_keeps_metadata(self, pane_id) ==
    LET layout == self.layout
        w1     == [self EXCEPT !.layout = Leaf(0)]
        r      == close_pane(layout, pane_id)
    IN  IF ~r.ok THEN [win |-> w1, res |-> r]
        ELSE LET w2 == [w1 EXCEPT !.zoomed = FALSE] IN
             IF IsSome(r.val) THEN
                LET w3 == [w2 EXCEPT !.layout = Unwrap(r.val)] IN
                [win |-> IF w3.active_pane = pane_id
                         THEN [w3 EXCEPT !.active_pane = pane_order(w3)[1]]
                         ELSE w3,
                 res |-> Ok(FALSE)]
             ELSE [win |-> w2, res |-> Ok(TRUE)]

MuxWindow_close_pane(self, pane_id) ==
    LET layout == self.layout
        w1     == [self EXCEPT !.layout = Leaf(0)]
        r      == close_pane(layout, pane_id)
    IN  IF ~r.ok THEN [win |-> w1, res |-> r]
        ELSE LET w2 == [w1 EXCEPT !.panes = MapRemove(@, pane_id), !.zoomed = FALSE] IN
             IF IsSome(r.val) THEN
                LET w3 == [w2 EXCEPT !.layout = Unwrap(r.val)] IN
                [win |-> IF w3.active_pane = pane_id
                         THEN [w3 EXCEPT !.active_pane = pane_order(w3)[1]]
                         ELSE w3,
                 res |-> Ok(FALSE)]
             ELSE [win |-> w2, res |-> Ok(TRUE)]

\* Iterator::position(..).unwrap_or(0), zero-based
Position(order, current) ==
    IF \E i \in 1..Len(order) : order[i] = current
    THEN (CHOOSE i \in 1..Len(order) :
             order[i] = current /\ \A j \in 1..(i - 1) : order[j] # current) - 1
    ELSE 0

cycle_next(order, current) ==
    LET pos == Position(order, current) IN order[((pos + 1) % Len(order)) + 1]

cycle_prev(order, current) ==
    LET pos  == Position(order, current)
        prev == IF pos = 0 THEN Len(order) - 1 ELSE pos - 1
    IN  order[prev + 1]

MuxWindow_next_pane(self) ==
    [self EXCEPT !.active_pane = cycle_next(pane_order(self), self.active_pane)]

MuxWindow_prev_pane(self) ==
    [self EXCEPT !.active_pane = cycle_prev(pane_order(self), self.active_pane)]

pane_rects(self, area) == calculate_rects(self.layout, area)

(***************************************************************************)
(* Initial values.  Every machine starts from the same constructed         *)
(* objects; a machine only moves its own variables.                        *)
(***************************************************************************)
SeqRange(s) == {s[i] : i \in 1..Len(s)}
LeafIds(t) == SeqRange(pane_ids(t))

NewCall == [op |-> "new", pane_id |-> 0, dir |-> "Vertical",
            pre |-> MuxWindow_new(0, "test"), ever |-> {},
            res |-> Ok(0)]

InitWinVars ==
    /\ win = MuxWindow_new(0, "test")
    /\ last = NewCall
    /\ reportedEmpty = FALSE
    /\ everIds = {0}
    /\ closedIds = {}

(***************************************************************************)
(* Spec: a MuxWindow and the calls of its public methods, with any pane id *)
(* as argument, present in the layout or not.                              *)
(***************************************************************************)
PaneIdArgs == 0..MaxPaneId

Split(pane_id, dir) ==
    /\ win.next_pane_id < MaxPaneId
    /\ LET r == MuxWindow_split(win, pane_id, dir) IN
       /\ win' = r.win
       /\ last' = [op |-> "split", pane_id |-> pane_id, dir |-> dir,
                   pre |-> win, ever |-> everIds, res |-> r.res]
       /\ everIds' = everIds \cup LeafIds(r.win.layout)
    /\ UNCHANGED <<reportedEmpty, closedIds>>

ClosePane(pane_id) ==
    LET r == MuxWindow_close_pane(win, pane_id) IN
    /\ win' = r.win
    /\ last' = [op |-> "close_pane", pane_id |-> pane_id, dir |-> "Vertical",
                pre |-> win, ever |-> everIds, res |-> r.res]
    /\ reportedEmpty' = (reportedEmpty \/ (r.res.ok /\ r.res.val))
    /\ closedIds' = IF r.res.ok THEN closedIds \cup {pane_id} ELSE closedIds
    /\ everIds' = everIds \cup LeafIds(r.win.layout)

NextPane ==
    /\ win' = MuxWindow_next_pane(win)
    /\ last' = [op |-> "next_pane", pane_id |-> win.active_pane, dir |-> "Vertical",
                pre |-> win, ever |-> everIds, res |-> Ok(0)]
    /\ UNCHANGED <<reportedEmpty, everIds, closedIds>>

\* the caller's assignment to the public field: win.zoomed = !win.zoomed
ToggleZoomed ==
    /\ win' = [win EXCEPT !.zoomed = ~@]
    /\ last' = [op |-> "toggle_zoomed", pane_id |-> win.active_pane, dir |-> "Vertical",
                pre |-> win, ever |-> everIds, res |-> Ok(0)]
    /\ UNCHANGED <<reportedEmpty, everIds, closedIds>>

PrevPane ==
    /\ win' = MuxWindow_prev_pane(win)
    /\ last' = [op |-> "prev_pane", pane_id |-> win.active_pane, dir |-> "Vertical",
                pre |-> win, ever |-> everIds, res |-> Ok(0)]
    /\ UNCHANGED <<reportedEmpty, everIds, closedIds>>

(***************************************************************************)
(* SpecLayout: a layout tree edited through split_pane, close_pane and     *)
(* resize_pane and measured with calculate_rects.  The caller passes a     *)
(* clone of its tree to split_pane / close_pane, which take the tree by    *)
(* value, so it still holds its tree when they return an error, and it     *)
(* draws the new pane id from its own counter (tests/property_tests.rs).   *)
(***************************************************************************)
MaxFreshId == 3

\* width, height in 2..MaxDim placed at the origin, and squares of those
\* sizes flush against the far corner of the u16 coordinate space
Areas ==
    {Rect(0, 0, w, h) : w \in 2..MaxDim, h \in 2..MaxDim}
    \cup {Rect(U16Max + 1 - d, U16Max + 1 - d, d, d) : d \in 2..MaxDim}

\* mux_actions.rs resize: `delta as f32 * 0.05`
I16Delta(delta) ==
    LET m == IF delta > DeltaSat THEN DeltaSat
             ELSE IF delta < 0 - DeltaSat THEN 0 - DeltaSat ELSE delta
    IN  RoundF32(m * ResizeStep)

I16Args == {-32768, -4, 4, 32767}
\* deltas handed to resize_pane: the scaled i16 deltas
DeltaArgs == {I16Delta(n) : n \in I16Args}

TargetArgs == 0..MaxFreshId

NoCalc == [done |-> FALSE, area |-> Rect(0, 0, 0, 0), rects |-> EmptyMap, count |-> 0]

InitLayoutVars ==
    /\ tree = Some(Leaf(0))
    /\ fresh = 1
    /\ calc = NoCalc

TSplit(target, dir) ==
    /\ IsSome(tree)
    /\ pane_count(Unwrap(tree)) < MaxLeaves
    /\ fresh < MaxFreshId
    /\ LET r == split_pane(Unwrap(tree), target, dir, fresh) IN
       tree' = IF r.ok THEN Some(r.val[1]) ELSE tree
    /\ fresh' = fresh + 1
    /\ calc' = NoCalc

TClose(target) ==
    /\ IsSome(tree)
    /\ LET r == close_pane(Unwrap(tree), target) IN
       tree' = IF r.ok THEN r.val ELSE tree
    /\ calc' = NoCalc
    /\ UNCHANGED fresh

TResize(target, delta) ==
    /\ IsSome(tree)
    /\ tree' = Some(resize_pane(Unwrap(tree), target, delta).tree)
    /\ calc' = NoCalc
    /\ UNCHANGED fresh

TCalc(area) ==
    /\ IsSome(tree)
    /\ calc' = [done |-> TRUE, area |-> area,
                rects |-> calculate_rects(Unwrap(tree), area),
                count |-> pane_count(Unwrap(tree))]
    /\ UNCHANGED <<tree, fresh>>

(***************************************************************************)
(* session.rs                                                              *)
(***************************************************************************)
SessionError(msg) == [ok |-> FALSE, val |-> <<"SessionError", msg>>]
WindowNotFound(idx) == [ok |-> FALSE, val |-> <<"WindowNotFound", idx>>]

Session_new(id, name) ==
    [id |-> id, name |-> name,
     windows |-> << MuxWindow_new(0, "0") >>,
     active_window |-> 0,
     next_window_id |-> 1]

\* Vec::remove(idx), idx zero-based
VecRemove(v, idx) == [i \in 1..(Len(v) - 1) |-> IF i <= idx THEN v[i] ELSE v[i + 1]]
\* Vec::get(idx), idx zero-based
VecGet(v, idx) == IF idx < Len(v) THEN Some(v[idx + 1]) ELSE None

add_window(self, name) ==
    LET id == self.next_window_id
        ws == Append(self.windows, MuxWindow_new(id, name))
    IN  [self EXCEPT !.next_window_id = @ + 1,
                     !.windows = ws,
                     !.active_window = Len(ws) - 1]

\* close_window that leaves active_window as it is
close_window_no_adjust(self, idx) ==
    IF idx >= Len(self.windows) THEN [session |-> self, res |-> WindowNotFound(idx)]
    ELSE [session |-> [self EXCEPT !.windows = VecRemove(@, idx)], res |-> Ok(<<>>)]

\* close_window that removes the last window whatever the index
close_window_removes_last(self, idx) ==
    IF idx >= Len(self.windows) THEN [session |-> self, res |-> WindowNotFound(idx)]
    ELSE LET s1 == [self EXCEPT !.windows = VecRemove(@, Len(@) - 1)] IN
         IF Len(s1.windows) = 0 THEN [session |-> s1, res |-> Ok(<<>>)]
         ELSE IF s1.active_window >= Len(s1.windows)
              THEN [session |-> [s1 EXCEPT !.active_window = Len(s1.windows) - 1],
                    res |-> Ok(<<>>)]
              ELSE [session |-> s1, res |-> Ok(<<>>)]

\* returns the session after the call and the MuxResult
close_window(self, idx) ==
    IF idx >= Len(self.windows) THEN [session |-> self, res |-> WindowNotFound(idx)]
    ELSE LET s1 == [self EXCEPT !.windows = VecRemove(@, idx)] IN
         IF Len(s1.windows) = 0 THEN [session |-> s1, res |-> Ok(<<>>)]
         ELSE IF s1.active_window >= Len(s1.windows)
              THEN [session |-> [s1 EXCEPT !.active_window = Len(s1.windows) - 1],
                    res |-> Ok(<<>>)]
              ELSE [session |-> s1, res |-> Ok(<<>>)]

next_window(self) ==
    IF Len(self.windows) # 0
    THEN [self EXCEPT !.active_window = (@ + 1) % Len(self.windows)]
    ELSE self

prev_window(self) ==
    IF Len(self.windows) # 0
    THEN [self EXCEPT !.active_window = IF @ = 0 THEN Len(self.windows) - 1 ELSE @ - 1]
    ELSE self

active_win(self) == VecGet(self.windows, self.active_window)

active_pane_id(self) ==
    IF IsSome(active_win(self)) THEN Some(Unwrap(active_win(self)).active_pane) ELSE None

active_layout(self) ==
    IF IsSome(active_win(self)) THEN Some(Unwrap(active_win(self)).layout) ELSE None

\* store a window back through the reference active_win_mut handed out
SetActiveWin(self, w) == [self EXCEPT !.windows[self.active_window + 1] = w]

\* split_active that reports success when there is no active window
split_active_ignores_missing_window(self, dir) ==
    IF ~IsSome(active_win(self))
    THEN [session |-> self, res |-> Ok(0)]
    ELSE LET w == Unwrap(active_win(self))
             r == MuxWindow_split(w, w.active_pane, dir)
         IN  [session |-> SetActiveWin(self, r.win), res |-> r.res]

split_active(self, dir) ==
    IF ~IsSome(active_win(self))
    THEN [session |-> self, res |-> SessionError("no active window")]
    ELSE LET w == Unwrap(active_win(self))
             r == MuxWindow_split(w, w.active_pane, dir)
         IN  [session |-> SetActiveWin(self, r.win), res |-> r.res]

(***************************************************************************)
(* mux_state.rs, mux_actions.rs.  A PaneState stands for one spawned PTY   *)
(* and terminal; it is identified by the window and pane it was spawned    *)
(* for.  The terminal grid and the PTY themselves are outside the model.   *)
(***************************************************************************)
PaneState(window_id, pane_id) == [window |-> window_id, pane |-> pane_id]

MuxState_new(session) == [session |-> session, panes |-> EmptyMap]

register_pane(self, id, state) == [self EXCEPT !.panes = MapInsert(@, id, state)]
remove_pane(self, id) == [self EXCEPT !.panes = MapRemove(@, id)]

\* every function of mux_actions.rs returns the MuxState after the call and
\* the redraw flag; spawn_ok is the outcome of mux_spawn::spawn_pane
cmd_split(m, dir, spawn_ok) ==
    LET r  == split_active(m.session, dir)
        m1 == [m EXCEPT !.session = r.session]
    IN  IF ~r.res.ok THEN [mux |-> m1, redraw |-> FALSE]
        ELSE IF spawn_ok
             THEN [mux |-> register_pane(m1, r.res.val,
                              PaneState(Unwrap(active_win(m1.session)).id, r.res.val)),
                   redraw |-> TRUE]
             ELSE [mux |-> m1, redraw |-> FALSE]

cmd_close_pane(m) ==
    IF ~IsSome(active_win(m.session)) THEN [mux |-> m, redraw |-> FALSE]
    ELSE LET w       == Unwrap(active_win(m.session))
             pane_id == w.active_pane
             r       == MuxWindow_close_pane(w, pane_id)
             m1      == [m EXCEPT !.session = SetActiveWin(@, r.win)]
         IN  IF ~r.res.ok THEN [mux |-> m1, redraw |-> FALSE]
             ELSE LET m2 == remove_pane(m1, pane_id) IN
                  IF r.res.val
                  THEN [mux |-> [m2 EXCEPT !.session =
                                    close_window(@, m2.session.active_window).session],
                        redraw |-> TRUE]
                  ELSE [mux |-> m2, redraw |-> TRUE]

nav_next_pane(m) ==
    IF IsSome(active_win(m.session))
    THEN [mux |-> [m EXCEPT !.session =
                      SetActiveWin(@, MuxWindow_next_pane(Unwrap(active_win(m.session))))],
          redraw |-> TRUE]
    ELSE [mux |-> m, redraw |-> FALSE]

nav_prev_pane(m) ==
    IF IsSome(active_win(m.session))
    THEN [mux |-> [m EXCEPT !.session =
                      SetActiveWin(@, MuxWindow_prev_pane(Unwrap(active_win(m.session))))],
          redraw |-> TRUE]
    ELSE [mux |-> m, redraw |-> FALSE]

cmd_new_window(m, spawn_ok) ==
    LET name == ToString(Len(m.session.windows))
        m1   == [m EXCEPT !.session = add_window(@, name)]
        pid  == active_pane_id(m1.session)
    IN  IF IsSome(pid) /\ spawn_ok
        THEN [mux |-> register_pane(m1, Unwrap(pid),
                         PaneState(Unwrap(active_win(m1.session)).id, Unwrap(pid))),
              redraw |-> TRUE]
        ELSE [mux |-> m1, redraw |-> TRUE]

RECURSIVE RemovePanes(_, _)
RemovePanes(m, ids) ==
    IF Len(ids) = 0 THEN m ELSE RemovePanes(remove_pane(m, Head(ids)), Tail(ids))

cmd_close_window(m) ==
    LET idx == m.session.active_window
        w   == VecGet(m.session.windows, idx)
        m1  == IF IsSome(w) THEN RemovePanes(m, pane_ids(Unwrap(w).layout)) ELSE m
    IN  [mux |-> [m1 EXCEPT !.session = close_window(@, idx).session], redraw |-> TRUE]

switch_to_window(m, n) ==
    IF n < Len(m.session.windows)
    THEN [mux |-> [m EXCEPT !.session.active_window = n], redraw |-> TRUE]
    ELSE [mux |-> m, redraw |-> FALSE]

toggle_zoom(m) ==
    IF IsSome(active_win(m.session))
    THEN LET w == Unwrap(active_win(m.session)) IN
         [mux |-> [m EXCEPT !.session = SetActiveWin(@, [w EXCEPT !.zoomed = ~@])],
          redraw |-> TRUE]
    ELSE [mux |-> m, redraw |-> FALSE]

cmd_resize(m, dir, delta) ==
    IF ~IsSome(active_win(m.session)) THEN [mux |-> m, redraw |-> FALSE]
    ELSE LET w == Unwrap(active_win(m.session))
             d == I16Delta(delta)
             r == resize_pane(w.layout, w.active_pane, d)
         IN  [mux |-> [m EXCEPT !.session = SetActiveWin(@, [w EXCEPT !.layout = r.tree])],
              redraw |-> r.res.ok]

rename_window(m, name) ==
    IF IsSome(active_win(m.session))
    THEN LET w == Unwrap(active_win(m.session)) IN
         [mux |-> [m EXCEPT !.session = SetActiveWin(@, [w EXCEPT !.name = name])],
          redraw |-> TRUE]
    ELSE [mux |-> m, redraw |-> FALSE]

\* a MuxCommand is a record: its variant and its payload
execute_command(m, cmd, spawn_ok) ==
    CASE cmd.c = "SplitHorizontal" -> cmd_split(m, "Horizontal", spawn_ok)
      [] cmd.c = "SplitVertical"   -> cmd_split(m, "Vertical", spawn_ok)
      [] cmd.c = "ClosePane"       -> cmd_close_pane(m)
      [] cmd.c = "NextPane"        -> nav_next_pane(m)
      [] cmd.c = "PrevPane"        -> nav_prev_pane(m)
      [] cmd.c = "NewWindow"       -> cmd_new_window(m, spawn_ok)
      [] cmd.c = "CloseWindow"     -> cmd_close_window(m)
      [] cmd.c = "NextWindow"      -> [mux |-> [m EXCEPT !.session = next_window(@)],
                                       redraw |-> TRUE]
      [] cmd.c = "PrevWindow"      -> [mux |-> [m EXCEPT !.session = prev_window(@)],
                                       redraw |-> TRUE]
      [] cmd.c = "SwitchToWindow"  -> switch_to_window(m, cmd.n)
      [] cmd.c = "ToggleZoom"      -> toggle_zoom(m)
      [] cmd.c = "ResizePane"      -> cmd_resize(m, cmd.dir, cmd.n)
      [] cmd.c = "DetachSession"   -> [mux |-> m, redraw |-> FALSE]
      [] cmd.c = "ScrollbackMode"  -> [mux |-> m, redraw |-> FALSE]
      [] cmd.c = "NavigatePane"    -> nav_next_pane(m)
      [] cmd.c = "RenameWindow"    -> rename_window(m, cmd.name)

(***************************************************************************)
(* SpecCmd: a MuxState driven by execute_command with every command       *)
(* variant, on a screen of fixed size.  The screen area always has its     *)
(* origin at (0, 0) (mux_actions.rs propagate_resize).                     *)
(***************************************************************************)
\* no pane and no window is added once the session has issued this many
\* ids (next_window_id plus the next_pane_id of every window)
MaxCmdIds == 4

\* the screen has width and height in 2..MaxCmdDim
MaxCmdDim == 2
CmdAreas == {Rect(0, 0, w, h) : w \in 2..MaxCmdDim, h \in 2..MaxCmdDim}
\* outcomes of mux_spawn::spawn_pane that the machine draws from
SpawnOutcomes == {TRUE}
WindowArgs == 0..(MaxCmdIds - 2)
\* i16 deltas of ResizePane commands
CmdDeltaArgs == {-32768, 32767}

RECURSIVE SumNextPaneIds(_)
SumNextPaneIds(ws) ==
    IF Len(ws) = 0 THEN 0 ELSE Head(ws).next_pane_id + SumNextPaneIds(Tail(ws))

IdsIssued(s) == s.next_window_id + SumNextPaneIds(s.windows)

\* the startup code registers the PTY of the initial pane
InitMux == register_pane(MuxState_new(Session_new(0, "main")), 0, PaneState(0, 0))

InitCmdVars ==
    /\ mux = InitMux
    /\ total_area = Rect(0, 0, 2, 2)
    /\ shown = NoCalc

Execute(cmd, spawn_ok) ==
    /\ mux' = execute_command(mux, cmd, spawn_ok).mux
    /\ shown' = NoCalc
    /\ UNCHANGED total_area

\* the commands that issue an id are driven within the bound
CmdAllowed(cmd) ==
    cmd.c \in {"SplitHorizontal", "SplitVertical", "NewWindow"} =>
        IdsIssued(mux.session) < MaxCmdIds

CmdCommands ==
    {[c |-> n] : n \in {"SplitHorizontal", "SplitVertical", "ClosePane", "NextPane",
                        "PrevPane", "NewWindow", "CloseWindow", "NextWindow",
                        "PrevWindow", "ToggleZoom", "DetachSession", "ScrollbackMode"}}
    \cup {[c |-> "SwitchToWindow", n |-> n] : n \in WindowArgs}
    \cup {[c |-> "NavigatePane", dir |-> d] : d \in Direction}
    \cup {[c |-> "ResizePane", dir |-> d, n |-> n] : d \in Direction, n \in CmdDeltaArgs}

ExecuteCommand ==
    \E cmd \in CmdCommands, ok \in SpawnOutcomes : CmdAllowed(cmd) /\ Execute(cmd, ok)

\* propagate_resize: the rects of the active window's panes on the screen
PropagateResize ==
    /\ IsSome(active_win(mux.session))
    /\ LET w == Unwrap(active_win(mux.session)) IN
       shown' = [done |-> TRUE, area |-> total_area,
                 rects |-> pane_rects(w, total_area),
                 count |-> pane_count(w.layout)]
    /\ UNCHANGED <<mux, total_area>>

(***************************************************************************)
(* protocol.rs.  A frame is a sequence of bytes (0..255): a 4-byte         *)
(* big-endian length and the serde_json text of the message.               *)
(***************************************************************************)
\* the UTF-8 bytes of the identifiers serde writes for variants and fields
Utf8(s) ==
    CASE s = "Input" -> << 73, 110, 112, 117, 116 >>
      [] s = "Resize" -> << 82, 101, 115, 105, 122, 101 >>
      [] s = "Command" -> << 67, 111, 109, 109, 97, 110, 100 >>
      [] s = "Attach" -> << 65, 116, 116, 97, 99, 104 >>
      [] s = "Detach" -> << 68, 101, 116, 97, 99, 104 >>
      [] s = "rows" -> << 114, 111, 119, 115 >>
      [] s = "cols" -> << 99, 111, 108, 115 >>
      [] s = "SplitHorizontal" -> << 83, 112, 108, 105, 116, 72, 111, 114, 105, 122, 111, 110, 116, 97, 108 >>
      [] s = "SplitVertical" -> << 83, 112, 108, 105, 116, 86, 101, 114, 116, 105, 99, 97, 108 >>
      [] s = "ClosePane" -> << 67, 108, 111, 115, 101, 80, 97, 110, 101 >>
      [] s = "NextPane" -> << 78, 101, 120, 116, 80, 97, 110, 101 >>
      [] s = "PrevPane" -> << 80, 114, 101, 118, 80, 97, 110, 101 >>
      [] s = "NavigatePane" -> << 78, 97, 118, 105, 103, 97, 116, 101, 80, 97, 110, 101 >>
      [] s = "NewWindow" -> << 78, 101, 119, 87, 105, 110, 100, 111, 119 >>
      [] s = "CloseWindow" -> << 67, 108, 111, 115, 101, 87, 105, 110, 100, 111, 119 >>
      [] s = "NextWindow" -> << 78, 101, 120, 116, 87, 105, 110, 100, 111, 119 >>
      [] s = "PrevWindow" -> << 80, 114, 101, 118, 87, 105, 110, 100, 111, 119 >>
      [] s = "SwitchToWindow" -> << 83, 119, 105, 116, 99, 104, 84, 111, 87, 105, 110, 100, 111, 119 >>
      [] s = "RenameWindow" -> << 82, 101, 110, 97, 109, 101, 87, 105, 110, 100, 111, 119 >>
      [] s = "DetachSession" -> << 68, 101, 116, 97, 99, 104, 83, 101, 115, 115, 105, 111, 110 >>
      [] s = "ToggleZoom" -> << 84, 111, 103, 103, 108, 101, 90, 111, 111, 109 >>
      [] s = "ResizePane" -> << 82, 101, 115, 105, 122, 101, 80, 97, 110, 101 >>
      [] s = "ScrollbackMode" -> << 83, 99, 114, 111, 108, 108, 98, 97, 99, 107, 77, 111, 100, 101 >>
      [] s = "Horizontal" -> << 72, 111, 114, 105, 122, 111, 110, 116, 97, 108 >>
      [] s = "Vertical" -> << 86, 101, 114, 116, 105, 99, 97, 108 >>
      [] s = "Output" -> << 79, 117, 116, 112, 117, 116 >>
      [] s = "pane_id" -> << 112, 97, 110, 101, 95, 105, 100 >>
      [] s = "data" -> << 100, 97, 116, 97 >>
      [] s = "StateSync" -> << 83, 116, 97, 116, 101, 83, 121, 110, 99 >>
      [] s = "PaneExited" -> << 80, 97, 110, 101, 69, 120, 105, 116, 101, 100 >>
      [] s = "ServerShutdown" -> << 83, 101, 114, 118, 101, 114, 83, 104, 117, 116, 100, 111, 119, 110 >>
      [] s = "id" -> << 105, 100 >>
      [] s = "name" -> << 110, 97, 109, 101 >>
      [] s = "windows" -> << 119, 105, 110, 100, 111, 119, 115 >>
      [] s = "active_window" -> << 97, 99, 116, 105, 118, 101, 95, 119, 105, 110, 100, 111, 119 >>
      [] s = "next_window_id" -> << 110, 101, 120, 116, 95, 119, 105, 110, 100, 111, 119, 95, 105, 100 >>
      [] s = "layout" -> << 108, 97, 121, 111, 117, 116 >>
      [] s = "active_pane" -> << 97, 99, 116, 105, 118, 101, 95, 112, 97, 110, 101 >>
      [] s = "panes" -> << 112, 97, 110, 101, 115 >>
      [] s = "next_pane_id" -> << 110, 101, 120, 116, 95, 112, 97, 110, 101, 95, 105, 100 >>
      [] s = "zoomed" -> << 122, 111, 111, 109, 101, 100 >>
      [] s = "Leaf" -> << 76, 101, 97, 102 >>
      [] s = "Split" -> << 83, 112, 108, 105, 116 >>
      [] s = "direction" -> << 100, 105, 114, 101, 99, 116, 105, 111, 110 >>
      [] s = "ratio" -> << 114, 97, 116, 105, 111 >>
      [] s = "first" -> << 102, 105, 114, 115, 116 >>
      [] s = "second" -> << 115, 101, 99, 111, 110, 100 >>
      [] s = "title" -> << 116, 105, 116, 108, 101 >>
      [] s = "demo" -> << 100, 101, 109, 111 >>
      [] s = "work" -> << 119, 111, 114, 107 >>
      [] s = "0" -> << 48 >>
      [] s = "1" -> << 49 >>
      [] s = "" -> << >>

\* serde_json writers
JsonString(s) == << 34 >> \o Utf8(s) \o << 34 >>

RECURSIVE JsonDigits(_)
JsonDigits(n) == IF n < 10 THEN << 48 + n >> ELSE JsonDigits(n \div 10) \o << 48 + (n % 10) >>

JsonNumber(n) == IF n < 0 THEN << 45 >> \o JsonDigits(0 - n) ELSE JsonDigits(n)

RECURSIVE JsonItems(_)
JsonItems(data) ==
    IF Len(data) = 0 THEN << >>
    ELSE IF Len(data) = 1 THEN JsonNumber(Head(data))
    ELSE JsonNumber(Head(data)) \o << 44 >> \o JsonItems(Tail(data))

JsonBytes(data) == << 91 >> \o JsonItems(data) \o << 93 >>

\* a newtype or struct variant: {"Name":value}
JsonVariant(name, value) == << 123 >> \o JsonString(name) \o << 58 >> \o value \o << 125 >>

\* #[derive(Serialize)] of MuxCommand (command.rs)
MuxCommand_to_vec(cmd) ==
    CASE cmd.c = "SwitchToWindow" -> JsonVariant("SwitchToWindow", JsonNumber(cmd.n))
      [] cmd.c = "NavigatePane"   -> JsonVariant("NavigatePane", JsonString(cmd.dir))
      [] cmd.c = "ResizePane"     ->
            JsonVariant("ResizePane",
                << 91 >> \o JsonString(cmd.dir) \o << 44 >> \o JsonNumber(cmd.n) \o << 93 >>)
      [] OTHER                    -> JsonString(cmd.c)

\* #[derive(Serialize)] of ClientMessage; a message is a record with its
\* variant in field t
to_vec(msg) ==
    CASE msg.t = "Input"   -> JsonVariant("Input", JsonBytes(msg.data))
      [] msg.t = "Resize"  ->
            JsonVariant("Resize",
                << 123 >> \o JsonString("rows") \o << 58 >> \o JsonNumber(msg.rows)
                \o << 44 >> \o JsonString("cols") \o << 58 >> \o JsonNumber(msg.cols)
                \o << 125 >>)
      [] msg.t = "Command" -> JsonVariant("Command", MuxCommand_to_vec(msg.cmd))
      [] msg.t = "Attach"  -> JsonString("Attach")
      [] msg.t = "Detach"  -> JsonString("Detach")

\* u32::to_be_bytes and u32::from_be_bytes
to_be_bytes(n) ==
    << (n \div 16777216) % 256, (n \div 65536) % 256, (n \div 256) % 256, n % 256 >>
from_be_bytes(b) == ((b[1] * 256 + b[2]) * 256 + b[3]) * 256 + b[4]

encode_message(msg) ==
    LET json == to_vec(msg) IN to_be_bytes(Len(json)) \o json

Attach == [t |-> "Attach"]
Detach == [t |-> "Detach"]
Input(data) == [t |-> "Input", data |-> data]
Resize(rows, cols) == [t |-> "Resize", rows |-> rows, cols |-> cols]
Command(cmd) == [t |-> "Command", cmd |-> cmd]

\* the MuxCommand values that clients put on the wire
WireCommands ==
    {[c |-> n] : n \in {"SplitHorizontal", "SplitVertical", "ClosePane", "NextPane",
                        "PrevPane", "NewWindow", "CloseWindow", "NextWindow",
                        "PrevWindow", "DetachSession", "ToggleZoom", "ScrollbackMode"}}
    \cup {[c |-> "SwitchToWindow", n |-> n] : n \in 0..2}
    \cup {[c |-> "NavigatePane", dir |-> d] : d \in Direction}
    \cup {[c |-> "ResizePane", dir |-> d, n |-> n] : d \in Direction, n \in {-1, 1}}

\* longest Vec<u8> carried by Input and Output
MaxData == 2

\* a ten-digit u32 id
LargeId == 2147483647

ByteSeqs == UNION {[1..n -> {0, 255}] : n \in 0..MaxData}

\* the ClientMessage values that clients put on the wire
WireMessages ==
    {Attach, Detach, Input(<< 65 >>), Resize(24, 80)} \cup {Command(c) : c \in WireCommands}
    \cup {Input(data) : data \in ByteSeqs}
    \cup {Resize(rows, cols) : rows \in {0, U16Max}, cols \in {0, U16Max}}

\* serde_json::from_slice::<ClientMessage>: the message whose text the
\* bytes are, or an error (None) for bytes that are no message's text
from_slice(bytes) ==
    IF \E m \in WireMessages : to_vec(m) = bytes
    THEN Some(CHOOSE m \in WireMessages : to_vec(m) = bytes)
    ELSE None

\* decode_message that reports the payload length as the consumed count
decode_message_consumes_payload_only(buf) ==
    IF Len(buf) < 4 THEN None
    ELSE LET len   == from_be_bytes(SubSeq(buf, 1, 4))
             total == 4 + len
         IN  IF Len(buf) < total THEN None
             ELSE LET msg == from_slice(SubSeq(buf, 5, total)) IN
                  IF IsSome(msg) THEN Some(<< Unwrap(msg), len >>) ELSE None

\* returns Some(<<msg, consumed>>) or None
decode_message(buf) ==
    IF Len(buf) < 4 THEN None
    ELSE LET len   == from_be_bytes(SubSeq(buf, 1, 4))
             total == 4 + len
         IN  IF Len(buf) < total THEN None
             ELSE LET msg == from_slice(SubSeq(buf, 5, total)) IN
                  IF IsSome(msg) THEN Some(<< Unwrap(msg), total >>) ELSE None

(***************************************************************************)
(* socket.rs.  What Read::read returned is an argument: Data(bytes) for    *)
(* Ok(n) with n > 0, Closed for Ok(0), WouldBlock, or IoErr for any other  *)
(* error.                                                                  *)
(***************************************************************************)
\* size of the stack buffer read_message reads into
TmpLen == 4096

Data(bytes) == [k |-> "Data", bytes |-> bytes]
Closed == [k |-> "Closed"]
WouldBlock == [k |-> "WouldBlock"]
IoErr == [k |-> "IoErr"]

MessageReader_new == [buf |-> << >>]

\* Vec::drain(..consumed)
Drain(buf, consumed) == SubSeq(buf, consumed + 1, Len(buf))

\* read_message that clears the buffer after decoding a message from the
\* bytes just read
read_message_clears_buf(self, rd) ==
    LET d0 == decode_message(self.buf) IN
    IF IsSome(d0)
    THEN [reader |-> [self EXCEPT !.buf = Drain(@, Unwrap(d0)[2])],
          res |-> Ok(Some(Unwrap(d0)[1])), did_read |-> FALSE]
    ELSE IF rd.k = "Closed"
         THEN [reader |-> self, res |-> [ok |-> FALSE, val |-> "ConnectionReset"],
               did_read |-> TRUE]
    ELSE IF rd.k = "IoErr"
         THEN [reader |-> self, res |-> [ok |-> FALSE, val |-> "Other"], did_read |-> TRUE]
    ELSE LET r1 == IF rd.k = "Data" THEN [self EXCEPT !.buf = @ \o rd.bytes] ELSE self
             d1 == decode_message(r1.buf)
         IN  IF IsSome(d1)
             THEN [reader |-> [r1 EXCEPT !.buf = << >>],
                   res |-> Ok(Some(Unwrap(d1)[1])), did_read |-> TRUE]
             ELSE [reader |-> r1, res |-> Ok(None), did_read |-> TRUE]

\* returns the reader after the call, the io::Result<Option<T>> and whether
\* the stream was read
read_message(self, rd) ==
    LET d0 == decode_message(self.buf) IN
    IF IsSome(d0)
    THEN [reader |-> [self EXCEPT !.buf = Drain(@, Unwrap(d0)[2])],
          res |-> Ok(Some(Unwrap(d0)[1])), did_read |-> FALSE]
    ELSE IF rd.k = "Closed"
         THEN [reader |-> self, res |-> [ok |-> FALSE, val |-> "ConnectionReset"],
               did_read |-> TRUE]
    ELSE IF rd.k = "IoErr"
         THEN [reader |-> self, res |-> [ok |-> FALSE, val |-> "Other"], did_read |-> TRUE]
    ELSE LET r1 == IF rd.k = "Data" THEN [self EXCEPT !.buf = @ \o rd.bytes] ELSE self
             d1 == decode_message(r1.buf)
         IN  IF IsSome(d1)
             THEN [reader |-> [r1 EXCEPT !.buf = Drain(@, Unwrap(d1)[2])],
                   res |-> Ok(Some(Unwrap(d1)[1])), did_read |-> TRUE]
             ELSE [reader |-> r1, res |-> Ok(None), did_read |-> TRUE]

(***************************************************************************)
(* server.rs.  ServerState.socket_path is derived from the session name    *)
(* once and never read by the message handlers; it is not modelled.        *)
(***************************************************************************)
ServerState_new(session) == [session |-> session, running |-> TRUE]

StateSync(session) == [t |-> "StateSync", session |-> session]
PaneContent(pane_id) ==
    [t |-> "PaneContent", pane_id |-> pane_id, content |-> << >>, cols |-> 0, rows |-> 0]
RequestPaneContent(pane_id) == [t |-> "RequestPaneContent", pane_id |-> pane_id]

handle_resize(self, rows, cols) == self

\* returns the ServerState after the command
handle_command(self, cmd) ==
    LET s == self.session
        w == active_win(s)
    IN
    CASE cmd.c = "SplitHorizontal" ->
            [self EXCEPT !.session = split_active(s, "Horizontal").session]
      [] cmd.c = "SplitVertical" ->
            [self EXCEPT !.session = split_active(s, "Vertical").session]
      [] cmd.c = "ClosePane" ->
            IF IsSome(w)
            THEN [self EXCEPT !.session =
                     SetActiveWin(s, MuxWindow_close_pane(Unwrap(w), Unwrap(w).active_pane).win)]
            ELSE self
      [] cmd.c = "NextPane" ->
            IF IsSome(w)
            THEN [self EXCEPT !.session = SetActiveWin(s, MuxWindow_next_pane(Unwrap(w)))]
            ELSE self
      [] cmd.c = "PrevPane" ->
            IF IsSome(w)
            THEN [self EXCEPT !.session = SetActiveWin(s, MuxWindow_prev_pane(Unwrap(w)))]
            ELSE self
      [] cmd.c = "NewWindow" -> [self EXCEPT !.session = add_window(s, "new")]
      [] cmd.c = "CloseWindow" ->
            [self EXCEPT !.session = close_window(s, s.active_window).session]
      [] cmd.c = "NextWindow" -> [self EXCEPT !.session = next_window(s)]
      [] cmd.c = "PrevWindow" -> [self EXCEPT !.session = prev_window(s)]
      [] cmd.c = "SwitchToWindow" ->
            IF cmd.n < Len(s.windows)
            THEN [self EXCEPT !.session.active_window = cmd.n]
            ELSE self
      [] cmd.c = "ToggleZoom" ->
            IF IsSome(w)
            THEN [self EXCEPT !.session = SetActiveWin(s, [Unwrap(w) EXCEPT !.zoomed = ~@])]
            ELSE self
      [] cmd.c = "RenameWindow" ->
            IF IsSome(w)
            THEN [self EXCEPT !.session = SetActiveWin(s, [Unwrap(w) EXCEPT !.name = cmd.name])]
            ELSE self
      [] cmd.c = "DetachSession" -> self
      [] cmd.c \in {"NavigatePane", "ResizePane"} -> self
      [] cmd.c = "ScrollbackMode" -> self

\* handle_message that records a Resize in the session and answers it with
\* a StateSync
handle_message_resize_syncs(self, msg) ==
    CASE msg.t = "Attach" -> [server |-> self, responses |-> << StateSync(self.session) >>]
      [] msg.t = "Detach" -> [server |-> self, responses |-> << >>]
      [] msg.t = "Resize" ->
            [server |-> [self EXCEPT !.session.name = "resized"],
             responses |-> << StateSync(self.session) >>]
      [] msg.t = "Command" ->
            LET s1 == handle_command(self, msg.cmd) IN
            [server |-> s1, responses |-> << StateSync(s1.session) >>]
      [] msg.t = "Input" -> [server |-> self, responses |-> << >>]
      [] msg.t = "RequestPaneContent" ->
            [server |-> self, responses |-> << PaneContent(msg.pane_id) >>]

\* handle_message that answers a Command with the session as it was before
\* the command
handle_message_stale_sync(self, msg) ==
    CASE msg.t = "Attach" -> [server |-> self, responses |-> << StateSync(self.session) >>]
      [] msg.t = "Detach" -> [server |-> self, responses |-> << >>]
      [] msg.t = "Resize" ->
            [server |-> handle_resize(self, msg.rows, msg.cols), responses |-> << >>]
      [] msg.t = "Command" ->
            LET s1 == handle_command(self, msg.cmd) IN
            [server |-> s1, responses |-> << StateSync(self.session) >>]
      [] msg.t = "Input" -> [server |-> self, responses |-> << >>]
      [] msg.t = "RequestPaneContent" ->
            [server |-> self, responses |-> << PaneContent(msg.pane_id) >>]

\* returns the ServerState after the message and the Vec<ServerMessage>
handle_message(self, msg) ==
    CASE msg.t = "Attach" -> [server |-> self, responses |-> << StateSync(self.session) >>]
      [] msg.t = "Detach" -> [server |-> self, responses |-> << >>]
      [] msg.t = "Resize" ->
            [server |-> handle_resize(self, msg.rows, msg.cols), responses |-> << >>]
      [] msg.t = "Command" ->
            LET s1 == handle_command(self, msg.cmd) IN
            [server |-> s1, responses |-> << StateSync(s1.session) >>]
      [] msg.t = "Input" -> [server |-> self, responses |-> << >>]
      [] msg.t = "RequestPaneContent" ->
            [server |-> self, responses |-> << PaneContent(msg.pane_id) >>]

shutdown(self) == [self EXCEPT !.running = FALSE]

(***************************************************************************)
(* mux_server.rs.  A ClientConnection is its MessageReader and the         *)
(* messages written to its stream so far.  write_ok tells whether          *)
(* socket::write_message succeeds on this call.                            *)
(***************************************************************************)
MuxServer_start(name) == ServerState_new(Session_new(0, name))

ClientConnection_new == [reader |-> MessageReader_new, written |-> << >>]

\* process_client that handles each message on a copy of the server state
process_client_keeps_old_state(self, client, rd, write_ok) ==
    LET r  == read_message(client.reader, rd)
        c1 == [client EXCEPT !.reader = r.reader]
    IN
    IF ~r.res.ok
    THEN [server |-> self, client |-> c1, ret |-> FALSE, msg |-> None, did_read |-> r.did_read]
    ELSE IF ~IsSome(r.res.val)
    THEN [server |-> self, client |-> c1, ret |-> TRUE, msg |-> None, did_read |-> r.did_read]
    ELSE LET msg == Unwrap(r.res.val) IN
         IF msg.t = "Detach"
         THEN [server |-> self, client |-> c1, ret |-> FALSE, msg |-> Some(msg),
               did_read |-> r.did_read]
         ELSE LET h == handle_message(self, msg) IN
              IF Len(h.responses) > 0 /\ ~write_ok
              THEN [server |-> self, client |-> c1, ret |-> FALSE, msg |-> Some(msg),
                    did_read |-> r.did_read]
              ELSE [server |-> self,
                    client |-> [c1 EXCEPT !.written = @ \o h.responses],
                    ret |-> TRUE, msg |-> Some(msg), did_read |-> r.did_read]

\* process_client that keeps the client when the read fails
process_client_ignores_read_error(self, client, rd, write_ok) ==
    LET r  == read_message(client.reader, rd)
        c1 == [client EXCEPT !.reader = r.reader]
    IN
    IF ~r.res.ok
    THEN [server |-> self, client |-> c1, ret |-> TRUE, msg |-> None, did_read |-> r.did_read]
    ELSE IF ~IsSome(r.res.val)
    THEN [server |-> self, client |-> c1, ret |-> TRUE, msg |-> None, did_read |-> r.did_read]
    ELSE LET msg == Unwrap(r.res.val) IN
         IF msg.t = "Detach"
         THEN [server |-> self, client |-> c1, ret |-> FALSE, msg |-> Some(msg),
               did_read |-> r.did_read]
         ELSE LET h == handle_message(self, msg) IN
              IF Len(h.responses) > 0 /\ ~write_ok
              THEN [server |-> h.server, client |-> c1, ret |-> FALSE, msg |-> Some(msg),
                    did_read |-> r.did_read]
              ELSE [server |-> h.server,
                    client |-> [c1 EXCEPT !.written = @ \o h.responses],
                    ret |-> TRUE, msg |-> Some(msg), did_read |-> r.did_read]

\* returns the ServerState and the connection after the call, the bool
\* returned, the message handled (if any) and whether the stream was read
process_client(self, client, rd, write_ok) ==
    LET r  == read_message(client.reader, rd)
        c1 == [client EXCEPT !.reader = r.reader]
    IN
    IF ~r.res.ok
    THEN [server |-> self, client |-> c1, ret |-> FALSE, msg |-> None, did_read |-> r.did_read]
    ELSE IF ~IsSome(r.res.val)
    THEN [server |-> self, client |-> c1, ret |-> TRUE, msg |-> None, did_read |-> r.did_read]
    ELSE LET msg == Unwrap(r.res.val) IN
         IF msg.t = "Detach"
         THEN [server |-> self, client |-> c1, ret |-> FALSE, msg |-> Some(msg),
               did_read |-> r.did_read]
         ELSE LET h == handle_message(self, msg) IN
              IF Len(h.responses) > 0 /\ ~write_ok
              THEN [server |-> h.server, client |-> c1, ret |-> FALSE, msg |-> Some(msg),
                    did_read |-> r.did_read]
              ELSE [server |-> h.server,
                    client |-> [c1 EXCEPT !.written = @ \o h.responses],
                    ret |-> TRUE, msg |-> Some(msg), did_read |-> r.did_read]

(***************************************************************************)
(* SpecSrv: a ServerState driven through handle_message, one message at a  *)
(* time, and the Session methods called on its session directly.           *)
(***************************************************************************)
\* no pane and no window is added once the session has issued this many
\* ids (next_window_id plus the next_pane_id of every window)
MaxSrvIds == 4

SessionNames == {"demo", "work"}

\* the commands handed to handle_command
SrvCommands ==
    {[c |-> n] : n \in {"SplitHorizontal", "SplitVertical", "ClosePane", "NextPane",
                        "PrevPane", "NewWindow", "CloseWindow", "NextWindow",
                        "PrevWindow", "DetachSession", "ToggleZoom", "ScrollbackMode"}}
    \cup {[c |-> "SwitchToWindow", n |-> n] : n \in 0..MaxSrvIds}
    \cup {[c |-> "NavigatePane", dir |-> "Vertical"],
          [c |-> "ResizePane", dir |-> "Vertical", n |-> 1]}

\* the commands that issue an id are driven within the bound
GrowthAllowed(s, cmd) ==
    cmd.c \in {"SplitHorizontal", "SplitVertical", "NewWindow"} => IdsIssued(s) < MaxSrvIds

\* whether the Session or MuxWindow method a command calls returns an error
\* (handle_command discards the result)
CommandFails(s, cmd) ==
    CASE cmd.c = "SplitHorizontal" -> ~split_active(s, "Horizontal").res.ok
      [] cmd.c = "SplitVertical"   -> ~split_active(s, "Vertical").res.ok
      [] cmd.c = "ClosePane"       ->
            /\ IsSome(active_win(s))
            /\ ~MuxWindow_close_pane(Unwrap(active_win(s)),
                                     Unwrap(active_win(s)).active_pane).res.ok
      [] cmd.c = "CloseWindow"     -> ~close_window(s, s.active_window).res.ok
      [] OTHER                     -> FALSE

\* hcall: the method called last, the variant of its message, whether the
\* method the command calls failed, whether the session changed, and the
\* responses returned
NoCall == [op |-> "new", t |-> "", failed |-> FALSE, changed |-> FALSE,
           responses |-> << >>]

InitSrvVars ==
    /\ server = MuxServer_start("demo")
    /\ hcall = NoCall

Handle(msg) ==
    LET h == handle_message(server, msg) IN
    /\ server' = h.server
    /\ hcall' = [op |-> "handle_message", t |-> msg.t,
                 failed |-> msg.t = "Command" /\ CommandFails(server.session, msg.cmd),
                 changed |-> h.server.session # server.session,
                 responses |-> h.responses]

HandleAttach == Handle(Attach)
HandleDetach == Handle(Detach)
HandleResize == Handle(Resize(24, 80))
HandleInput == Handle(Input(<< 65 >>))
HandleRequestPaneContent == Handle(RequestPaneContent(0))
HandleCommand(cmd) == GrowthAllowed(server.session, cmd) /\ Handle(Command(cmd))

SessionCall(op, session) ==
    /\ server' = [server EXCEPT !.session = session]
    /\ hcall' = [op |-> op, t |-> "", failed |-> FALSE,
                 changed |-> session # server.session, responses |-> << >>]

SessAddWindow ==
    /\ GrowthAllowed(server.session, [c |-> "NewWindow"])
    /\ SessionCall("add_window", add_window(server.session, "new"))
SessCloseWindow(idx) == SessionCall("close_window", close_window(server.session, idx).session)
SessNextWindow == SessionCall("next_window", next_window(server.session))
SessPrevWindow == SessionCall("prev_window", prev_window(server.session))

(***************************************************************************)
(* command.rs LeaderKeyConfig, mux_input.rs.  A ModifiersState is the set  *)
(* of its flags; a key is its logical_key: Key::Character(c) or            *)
(* Key::Named(n).  A leader key specification is kept as the parts that    *)
(* spec.split('-') yields.  An Instant is a count of milliseconds.         *)
(***************************************************************************)
timeout_ms == 1000

LeaderKeyConfig_default ==
    [keys |-> << <<"Control", "Space">>, <<"Control", "b">> >>, timeout_ms |-> timeout_ms]

Character(c) == [kind |-> "Character", v |-> c]
Named(n) == [kind |-> "Named", v |-> n]

Normal == [t |-> "Normal"]
WaitingForCommand(entered_at) == [t |-> "WaitingForCommand", entered_at |-> entered_at]

Consumed(cmd) == [t |-> "Consumed", cmd |-> cmd]
Forward == [t |-> "Forward"]

RECURSIVE parse_key_spec(_)
parse_key_spec(parts) ==
    IF Len(parts) = 0 THEN [mods |-> {}, key_name |-> ""]
    ELSE LET part == parts[Len(parts)]
             rest == parse_key_spec(SubSeq(parts, 1, Len(parts) - 1))
         IN  CASE part \in {"Control", "Ctrl"} -> [rest EXCEPT !.mods = @ \cup {"CONTROL"}]
               [] part = "Shift" -> [rest EXCEPT !.mods = @ \cup {"SHIFT"}]
               [] part = "Alt"   -> [rest EXCEPT !.mods = @ \cup {"ALT"}]
               [] part = "Super" -> [rest EXCEPT !.mods = @ \cup {"SUPER"}]
               [] OTHER -> [rest EXCEPT !.key_name = part]

matches_leader_spec(key, mods, spec) ==
    LET p == parse_key_spec(spec) IN
    IF mods # p.mods THEN FALSE
    ELSE CASE p.key_name = "Space" -> key = Named("Space")
           [] Len(p.key_name) = 1 -> key = Character(p.key_name)
           [] OTHER -> FALSE

is_leader_key(key, mods, config) ==
    \E i \in 1..Len(config.keys) : matches_leader_spec(key, mods, config.keys[i])

key_to_string(key, mods) ==
    LET base == CASE key.kind = "Character" -> Some(key.v)
                  [] key = Named("ArrowUp") -> Some("Up")
                  [] key = Named("ArrowDown") -> Some("Down")
                  [] key = Named("ArrowLeft") -> Some("Left")
                  [] key = Named("ArrowRight") -> Some("Right")
                  [] key = Named("Space") -> Some("Space")
                  [] OTHER -> None
    IN  IF ~IsSome(base) THEN None
        ELSE IF "CONTROL" \in mods THEN Some("Ctrl-" \o Unwrap(base)) ELSE base

map_command_key(key, mods, bindings) ==
    LET key_str == key_to_string(key, mods) IN
    IF ~IsSome(key_str) THEN None
    ELSE IF Unwrap(key_str) \in DOMAIN bindings THEN Some(bindings[Unwrap(key_str)])
    ELSE None

default_bindings ==
    LET unit == [k \in {"\"", "-", "%", "|", "x", "o", ";", "z", "c", "n", "p", "d", "["} |->
                    [c |-> CASE k \in {"\"", "-"} -> "SplitHorizontal"
                             [] k \in {"%", "|"} -> "SplitVertical"
                             [] k = "x" -> "ClosePane"
                             [] k = "o" -> "NextPane"
                             [] k = ";" -> "PrevPane"
                             [] k = "z" -> "ToggleZoom"
                             [] k = "c" -> "NewWindow"
                             [] k = "n" -> "NextWindow"
                             [] k = "p" -> "PrevWindow"
                             [] k = "d" -> "DetachSession"
                             [] k = "[" -> "ScrollbackMode"]]
        nav  == [k \in {"Up", "Down", "Left", "Right"} |->
                    [c |-> "NavigatePane",
                     dir |-> IF k \in {"Up", "Down"} THEN "Horizontal" ELSE "Vertical"]]
        rsz  == [k \in {"Ctrl-Up", "Ctrl-Down", "Ctrl-Left", "Ctrl-Right"} |->
                    [c |-> "ResizePane",
                     dir |-> IF k \in {"Ctrl-Up", "Ctrl-Down"} THEN "Horizontal" ELSE "Vertical",
                     n |-> IF k \in {"Ctrl-Up", "Ctrl-Left"} THEN -1 ELSE 1]]
        num  == [k \in {ToString(i) : i \in 0..9} |->
                    [c |-> "SwitchToWindow",
                     n |-> CHOOSE i \in 0..9 : ToString(i) = k]]
    IN  [k \in DOMAIN unit \cup DOMAIN nav \cup DOMAIN rsz \cup DOMAIN num |->
            IF k \in DOMAIN unit THEN unit[k]
            ELSE IF k \in DOMAIN nav THEN nav[k]
            ELSE IF k \in DOMAIN rsz THEN rsz[k]
            ELSE num[k]]

\* process_mux_key without the timeout check
process_mux_key_no_timeout(state, key, mods, leader_config, bindings, now) ==
    IF state.t = "Normal" THEN
        IF is_leader_key(key, mods, leader_config)
        THEN [state |-> WaitingForCommand(now), res |-> Consumed(None)]
        ELSE [state |-> state, res |-> Forward]
    ELSE IF is_leader_key(key, mods, leader_config)
         THEN [state |-> Normal, res |-> Forward]
         ELSE [state |-> Normal, res |-> Consumed(map_command_key(key, mods, bindings))]

\* process_mux_key with the timeout reached at exactly timeout_ms
process_mux_key_timeout_inclusive(state, key, mods, leader_config, bindings, now) ==
    IF state.t = "Normal" THEN
        IF is_leader_key(key, mods, leader_config)
        THEN [state |-> WaitingForCommand(now), res |-> Consumed(None)]
        ELSE [state |-> state, res |-> Forward]
    ELSE IF now - state.entered_at >= leader_config.timeout_ms
         THEN [state |-> Normal, res |-> Forward]
         ELSE IF is_leader_key(key, mods, leader_config)
         THEN [state |-> Normal, res |-> Forward]
         ELSE [state |-> Normal, res |-> Consumed(map_command_key(key, mods, bindings))]

\* process_mux_key where a second leader key starts a new leader sequence
process_mux_key_double_tap_restarts(state, key, mods, leader_config, bindings, now) ==
    IF state.t = "Normal" THEN
        IF is_leader_key(key, mods, leader_config)
        THEN [state |-> WaitingForCommand(now), res |-> Consumed(None)]
        ELSE [state |-> state, res |-> Forward]
    ELSE IF now - state.entered_at > leader_config.timeout_ms
         THEN [state |-> Normal, res |-> Forward]
         ELSE IF is_leader_key(key, mods, leader_config)
         THEN [state |-> WaitingForCommand(now), res |-> Consumed(None)]
         ELSE [state |-> Normal, res |-> Consumed(map_command_key(key, mods, bindings))]

\* returns the state after the call and the MuxKeyResult; now is the reading
\* of the monotonic clock during the call
\* process_mux_key that keeps waiting after a key that maps to no command
process_mux_key_waits_for_bound_key(state, key, mods, leader_config, bindings, now) ==
    IF state.t = "Normal" THEN
        IF is_leader_key(key, mods, leader_config)
        THEN [state |-> WaitingForCommand(now), res |-> Consumed(None)]
        ELSE [state |-> state, res |-> Forward]
    ELSE IF now - state.entered_at > leader_config.timeout_ms
         THEN [state |-> Normal, res |-> Forward]
         ELSE IF is_leader_key(key, mods, leader_config)
         THEN [state |-> Normal, res |-> Forward]
         ELSE [state |-> IF IsSome(map_command_key(key, mods, bindings)) THEN Normal ELSE state,
               res |-> Consumed(map_command_key(key, mods, bindings))]

process_mux_key(state, key, mods, leader_config, bindings, now) ==
    IF state.t = "Normal" THEN
        IF is_leader_key(key, mods, leader_config)
        THEN [state |-> WaitingForCommand(now), res |-> Consumed(None)]
        ELSE [state |-> state, res |-> Forward]
    ELSE IF now - state.entered_at > leader_config.timeout_ms
         THEN [state |-> Normal, res |-> Forward]
         ELSE IF is_leader_key(key, mods, leader_config)
         THEN [state |-> Normal, res |-> Forward]
         ELSE [state |-> Normal, res |-> Consumed(map_command_key(key, mods, bindings))]

(***************************************************************************)
(* SpecInput: the leader-key state machine fed with key events while the   *)
(* clock advances.                                                         *)
(***************************************************************************)
\* the clock stops advancing at this many milliseconds
MaxNow == 2004

\* the clock advances by half the timeout, or by a millisecond more
TickSteps == {timeout_ms \div 2, timeout_ms \div 2 + 1}

Keys == {Character("b"), Character("x"), Character("%"), Character("q"),
         Named("Space"), Named("ArrowUp"), Named("Enter")}
Mods == {{}, {"CONTROL"}, {"SHIFT"}, {"CONTROL", "SHIFT"}}

NoKey == [op |-> "default", pre |-> Normal, key |-> Named("Enter"), mods |-> {},
          at |-> 0, res |-> Forward]

InitInputVars ==
    /\ istate = Normal
    /\ clock = 0
    /\ kcall = NoKey

Tick(step) ==
    /\ clock + step <= MaxNow
    /\ clock' = clock + step
    /\ UNCHANGED <<istate, kcall>>

KeyPress(key, mods) ==
    LET r == process_mux_key(istate, key, mods, LeaderKeyConfig_default,
                             default_bindings, clock) IN
    /\ istate' = r.state
    /\ kcall' = [op |-> "process_mux_key", pre |-> istate, key |-> key, mods |-> mods,
                 at |-> clock, res |-> r.res]
    /\ UNCHANGED clock

(***************************************************************************)
(* SpecReader: one MessageReader fed the frames of a sequence of messages  *)
(* through reads that cut the byte stream at any place.                    *)
(***************************************************************************)
\* the sender writes at most this many frames
MaxFrames == 2

\* the messages the sender draws from
FrameMessages == {Attach, Input(<< 65 >>), Command([c |-> "ToggleZoom"])}

\* socket::write_message on each message in turn: the bytes on the stream
RECURSIVE Frames(_)
Frames(msgs) ==
    IF Len(msgs) = 0 THEN << >> ELSE encode_message(Head(msgs)) \o Frames(Tail(msgs))

NoRead == [op |-> "new", res |-> Ok(None), before |-> 0, avail |-> 0, did_read |-> FALSE]

InitReaderVars ==
    /\ wire = << >>
    /\ delivered = 0
    /\ mreader = MessageReader_new
    /\ got = << >>
    /\ rcall = NoRead

\* one read_message call; rd is what Read::read returns if it is called
ReadCall(rd) ==
    LET r == read_message(mreader, rd) IN
    /\ mreader' = r.reader
    /\ delivered' = IF r.did_read /\ rd.k = "Data" THEN delivered + Len(rd.bytes)
                    ELSE delivered
    /\ got' = IF r.res.ok /\ IsSome(r.res.val) THEN Append(got, Unwrap(r.res.val)) ELSE got
    /\ rcall' = [op |-> "read_message", res |-> r.res, before |-> Len(got),
                 avail |-> Len(mreader.buf)
                           + (IF r.did_read /\ rd.k = "Data" THEN Len(rd.bytes) ELSE 0),
                 did_read |-> r.did_read]
    /\ UNCHANGED wire

\* Read::read returns the next n bytes of the stream
ReadData(n) ==
    /\ n <= TmpLen
    /\ delivered + n <= Len(Frames(wire))
    /\ ReadCall(Data(SubSeq(Frames(wire), delivered + 1, delivered + n)))

\* Read::read finds no byte available
ReadWouldBlock == ReadCall(WouldBlock)

(***************************************************************************)
(* SpecSess: a Session driven through its window methods alone.            *)
(***************************************************************************)
\* no window is added once next_window_id has reached this
MaxSessIds == 4

\* the indices handed to close_window (some of them past the end)
SessIdxArgs == 0..MaxSessIds

\* scall: the method called last, its index argument, the session before
\* the call and the MuxResult returned
NoSessCall == [op |-> "new", idx |-> 0, pre |-> Session_new(0, "demo"), res |-> Ok(<< >>)]

InitSessVars ==
    /\ sess = Session_new(0, "demo")
    /\ scall = NoSessCall

SessionAddWindow ==
    /\ sess.next_window_id < MaxSessIds
    /\ sess' = add_window(sess, "new")
    /\ scall' = [op |-> "add_window", idx |-> 0, pre |-> sess, res |-> Ok(<< >>)]

SessionCloseWindow(idx) ==
    LET r == close_window(sess, idx) IN
    /\ sess' = r.session
    /\ scall' = [op |-> "close_window", idx |-> idx, pre |-> sess, res |-> r.res]

SessionNextWindow ==
    /\ sess' = next_window(sess)
    /\ scall' = [op |-> "next_window", idx |-> 0, pre |-> sess, res |-> Ok(<< >>)]

\* splits made in the windows of the session are driven up to this number
MaxSessSplits == 1

SessionSplitActive(dir) ==
    /\ SumNextPaneIds(sess.windows) - Len(sess.windows) < MaxSessSplits
    /\ \E r \in {split_active(sess, dir)} :
          /\ sess' = r.session
          /\ scall' = [op |-> "split_active", idx |-> 0, pre |-> sess, res |-> r.res]

SessionPrevWindow ==
    /\ sess' = prev_window(sess)
    /\ scall' = [op |-> "prev_window", idx |-> 0, pre |-> sess, res |-> Ok(<< >>)]

(***************************************************************************)
(* socket.rs create_listener and SocketGuard, mux_server.rs MuxServer.     *)
(* The file system is the set of socket paths that exist.  io names the    *)
(* system call of MuxServer::start that fails, if any.                     *)
(***************************************************************************)
IoError(what) == [ok |-> FALSE, val |-> <<"IoError", what>>]

ServerShutdown == [t |-> "ServerShutdown"]

socket_path_for(name) == name \o ".sock"

IoOutcomes == {"ok", "remove_err", "mkdir_err", "bind_err", "nonblocking_err"}

\* returns the file system after the call and the MuxResult
create_listener(fs, path, io) ==
    IF path \in fs /\ io = "remove_err" THEN [files |-> fs, res |-> IoError("remove_file")]
    ELSE LET fs1 == fs \ {path} IN
         IF io = "mkdir_err" THEN [files |-> fs1, res |-> IoError("create_dir_all")]
         ELSE IF io = "bind_err" THEN [files |-> fs1, res |-> IoError("bind")]
         ELSE [files |-> fs1 \cup {path}, res |-> Ok(path)]

SocketGuard_new(path) == [path |-> path]

\* impl Drop for SocketGuard
SocketGuard_drop(fs, guard) == fs \ {guard.path}

\* the same on a file system that records which listener each file belongs to
SocketGuard_drop_file(fs, guard) == MapRemove(fs, guard.path)

\* MuxServer::start with its system calls: returns the file system after
\* the call and the Result
MuxServer_start_io(fs, name, io) ==
    LET server_state == MuxServer_start(name)
        socket_path  == socket_path_for(name)
        l            == create_listener(fs, socket_path, io)
    IN  IF ~l.res.ok THEN [files |-> l.files, res |-> l.res]
        ELSE IF io = "nonblocking_err"
        THEN [files |-> l.files, res |-> IoError("set_nonblocking")]
        ELSE [files |-> l.files,
              res |-> Ok([server_state |-> server_state,
                          socket_guard |-> SocketGuard_new(socket_path)])]

\* dropping a MuxServer drops its fields
MuxServer_drop(fs, srv) == SocketGuard_drop(fs, srv.socket_guard)

\* a connection as its owner holds it: open until it is dropped
Connected(conn) == [conn |-> conn, open |-> TRUE]

\* returns the connection after the call and whether the write succeeded;
\* nothing can be written to a connection that is closed
send_shutdown(c, write_ok) ==
    IF c.open /\ write_ok
    THEN [client |-> [c EXCEPT !.conn.written = Append(@, ServerShutdown)], ok |-> TRUE]
    ELSE [client |-> c, ok |-> FALSE]

CloseConnection(c) == [c EXCEPT !.open = FALSE]

\* server shutdown that closes the connections before it writes to them
shutdown_server_closes_first(fs, srv, cs, failing) ==
    [files |-> MuxServer_drop(fs, srv),
     server_state |-> shutdown(srv.server_state),
     conns |-> [i \in 1..Len(cs) |->
                   send_shutdown(CloseConnection(cs[i]), i \notin failing).client]]

\* server shutdown: ServerShutdown is written to each connection, the
\* connection is closed, and the server with its socket guard is dropped;
\* failing holds the connections whose write fails
shutdown_server(fs, srv, cs, failing) ==
    [files |-> MuxServer_drop(fs, srv),
     server_state |-> shutdown(srv.server_state),
     conns |-> [i \in 1..Len(cs) |->
                   CloseConnection(send_shutdown(cs[i], i \notin failing).client)]]

(***************************************************************************)
(* SpecLife: servers started, accepting connections, and torn down, one    *)
(* at a time, over a file system that keeps what they leave behind.        *)
(***************************************************************************)
\* at most this many connections are accepted by one server
MaxClients == 3

\* lcall: the step taken last, the session name and failing system call of
\* a start, whether the step succeeded, whether the listener was bound, the
\* connections whose write failed and the connections before the step
NoLifeCall == [op |-> "new", name |-> "demo", io |-> "ok", ok |-> TRUE, bound |-> FALSE,
               failing |-> {}, pre_conns |-> << >>]

InitLifeVars ==
    /\ files = {}
    /\ msrv = None
    /\ conns = << >>
    /\ lcall = NoLifeCall

LifeStart(name, io) ==
    LET r == MuxServer_start_io(files, name, io) IN
    /\ msrv = None
    /\ files' = r.files
    /\ msrv' = IF r.res.ok THEN Some(r.res.val) ELSE None
    /\ conns' = << >>
    /\ lcall' = [op |-> "start", name |-> name, io |-> io, ok |-> r.res.ok,
                 bound |-> create_listener(files, socket_path_for(name), io).res.ok,
                 failing |-> {}, pre_conns |-> << >>]

LifeAccept ==
    /\ IsSome(msrv)
    /\ Len(conns) < MaxClients
    /\ conns' = Append(conns, Connected(ClientConnection_new))
    /\ lcall' = [op |-> "accept", name |-> Unwrap(msrv).server_state.session.name,
                 io |-> "ok", ok |-> TRUE, bound |-> TRUE,
                 failing |-> {}, pre_conns |-> conns]
    /\ UNCHANGED <<files, msrv>>

\* the owner of the connections drops one for which process_client returned
\* false
LifeDropClient(i) ==
    /\ IsSome(msrv)
    /\ i \in 1..Len(conns)
    /\ conns' = VecRemove(conns, i - 1)
    /\ lcall' = [op |-> "drop_client", name |-> Unwrap(msrv).server_state.session.name,
                 io |-> "ok", ok |-> TRUE, bound |-> TRUE,
                 failing |-> {}, pre_conns |-> conns]
    /\ UNCHANGED <<files, msrv>>

\* the MuxServer and the connections go out of scope with no shutdown
LifeDrop ==
    /\ IsSome(msrv)
    /\ files' = MuxServer_drop(files, Unwrap(msrv))
    /\ msrv' = None
    /\ conns' = [i \in 1..Len(conns) |-> CloseConnection(conns[i])]
    /\ lcall' = [op |-> "drop", name |-> Unwrap(msrv).server_state.session.name,
                 io |-> "ok", ok |-> TRUE, bound |-> TRUE,
                 failing |-> {}, pre_conns |-> conns]

LifeShutdown(failing) ==
    /\ IsSome(msrv)
    /\ failing \subseteq 1..Len(conns)
    /\ LET r == shutdown_server(files, Unwrap(msrv), conns, failing) IN
          /\ files' = r.files
          /\ conns' = r.conns
          /\ msrv' = None
          /\ lcall' = [op |-> "shutdown", name |-> r.server_state.session.name,
                       io |-> "ok", ok |-> ~r.server_state.running, bound |-> TRUE,
                       failing |-> failing, pre_conns |-> conns]

(***************************************************************************)
(* SpecNet: a MuxServer with several connected clients.  Each client       *)
(* writes frames to its stream; the server loop calls process_client on    *)
(* one connection at a time; once the call has returned false it drops the *)
(* connection, and the bytes in flight to it with it (mux_server.rs, doc   *)
(* of process_client).                                                     *)
(***************************************************************************)
\* the clients together write at most this many frames
MaxSent == 2

Clients == {"a", "b"}

\* a complete frame whose payload is not the JSON text of a ClientMessage
BadFrame == to_be_bytes(1) \o << 120 >>

\* what a client writes in one call: the frame of a message, or the bad
\* frame; the second client writes fewer kinds of frames
ClientFrames(c) ==
    IF c = "a"
    THEN {encode_message(msg) : msg \in {Attach, Detach, Input(<< 65 >>),
                                         Command([c |-> "SplitVertical"]),
                                         Command([c |-> "ToggleZoom"])}}
         \cup {BadFrame}
    ELSE {encode_message(msg) : msg \in {Detach, Command([c |-> "SplitVertical"])}}

\* a connection as the server loop sees it, with the bytes in flight to it,
\* the Attach and Command messages decoded from it and, for each message
\* written to it, the number of commands dispatched by then
NewClient ==
    [open |-> TRUE, stream |-> << >>, conn |-> ClientConnection_new,
     answered |-> << >>, synced |-> << >>]

NoProcess ==
    [op |-> "start", c |-> "a", rd |-> "WouldBlock", did_read |-> FALSE, ret |-> TRUE,
     msg |-> None, changed |-> FALSE, conn_changed |-> FALSE]

InitNetVars ==
    /\ clients = [c \in Clients |-> NewClient]
    /\ sent = 0
    /\ dispatched = << >>
    /\ pcall = NoProcess

\* a client writes a frame to its socket
ClientSend(c, frame) ==
    /\ clients[c].open
    /\ sent < MaxSent
    /\ sent' = sent + 1
    /\ clients' = [clients EXCEPT ![c].stream = @ \o frame]
    /\ UNCHANGED <<server, dispatched, pcall>>

\* the server loop calls process_client on connection c; rd is what
\* Read::read returns if the call reads, write_ok whether a write succeeds
ProcessClient(c, rd, write_ok) ==
    /\ clients[c].open
    /\ \E r \in {process_client(server, clients[c].conn, rd, write_ok)} :
       \E d1 \in {IF IsSome(r.msg) /\ Unwrap(r.msg).t = "Command"
                   THEN Append(dispatched, Unwrap(r.msg).cmd) ELSE dispatched} :
          /\ server' = r.server
          /\ dispatched' = d1
          /\ clients' = [clients EXCEPT ![c] =
                [open     |-> r.ret,
                 stream   |-> IF r.ret /\ r.did_read /\ rd.k = "Data"
                              THEN Drain(@.stream, Len(rd.bytes))
                              ELSE IF r.ret THEN @.stream ELSE << >>,
                 conn     |-> r.client,
                 answered |-> IF IsSome(r.msg) /\ Unwrap(r.msg).t \in {"Attach", "Command"}
                              THEN Append(@.answered, Unwrap(r.msg)) ELSE @.answered,
                 synced   |-> IF Len(r.client.written) > Len(@.conn.written)
                              THEN Append(@.synced, Len(d1)) ELSE @.synced]]
          /\ pcall' = [op |-> "process_client", c |-> c, rd |-> rd.k,
                       did_read |-> r.did_read, ret |-> r.ret, msg |-> r.msg,
                       changed |-> r.server # server,
                       conn_changed |-> r.client # clients[c].conn]
    /\ UNCHANGED sent

\* what Read::read can return on the connection: the bytes in flight, or
\* WouldBlock or end of stream when there are none, or an error
ReadOutcomes(c) ==
    IF Len(clients[c].stream) > 0 /\ Len(clients[c].stream) <= TmpLen
    THEN {Data(clients[c].stream), IoErr}
    ELSE {WouldBlock, Closed, IoErr}

(***************************************************************************)
(* protocol.rs, ServerMessage.  serde_json writes a struct as an object    *)
(* with its fields in declaration order, a newtype struct as its inner     *)
(* value, a Vec as an array and a HashMap as an object whose keys are the  *)
(* decimal text of the integer keys.                                       *)
(***************************************************************************)
JsonBool(b) == IF b THEN << 116, 114, 117, 101 >> ELSE << 102, 97, 108, 115, 101 >>

\* the items separated by commas
RECURSIVE JsonJoin(_)
JsonJoin(items) ==
    IF Len(items) = 0 THEN << >>
    ELSE IF Len(items) = 1 THEN Head(items)
    ELSE Head(items) \o << 44 >> \o JsonJoin(Tail(items))

JsonArray(items) == << 91 >> \o JsonJoin(items) \o << 93 >>

\* fields is a sequence of << name, text of the value >>
JsonObject(fields) ==
    << 123 >>
    \o JsonJoin([i \in 1..Len(fields) |-> JsonString(fields[i][1]) \o << 58 >> \o fields[i][2]])
    \o << 125 >>

\* f32 as serde_json prints it; the layouts put on the wire hold the ratio
\* of a fresh split only
JsonF32(r) == CASE r = RatioHalf -> << 48, 46, 53 >>

RECURSIVE LayoutNode_to_vec(_)
LayoutNode_to_vec(node) ==
    IF node.kind = "Leaf"
    THEN JsonVariant("Leaf", JsonObject(<< << "pane_id", JsonNumber(node.pane_id) >> >>))
    ELSE JsonVariant("Split",
            JsonObject(<< << "direction", JsonString(node.direction) >>,
                          << "ratio", JsonF32(node.ratio) >>,
                          << "first", LayoutNode_to_vec(node.first) >>,
                          << "second", LayoutNode_to_vec(node.second) >> >>))

Pane_to_vec(pane) ==
    JsonObject(<< << "id", JsonNumber(pane.id) >>, << "title", JsonString(pane.title) >> >>)

\* the keys of a map in ascending order (the HashMap's iteration order is
\* not fixed; the reader accepts every order)
RECURSIVE SortedKeys(_)
SortedKeys(keys) ==
    IF keys = {} THEN << >>
    ELSE LET k == CHOOSE x \in keys : \A y \in keys : x <= y
         IN  << k >> \o SortedKeys(keys \ {k})

Panes_to_vec(panes) ==
    << 123 >>
    \o JsonJoin([i \in 1..Len(SortedKeys(DOMAIN panes)) |->
                    << 34 >> \o JsonNumber(SortedKeys(DOMAIN panes)[i]) \o << 34, 58 >>
                    \o Pane_to_vec(panes[SortedKeys(DOMAIN panes)[i]])])
    \o << 125 >>

MuxWindow_to_vec(w) ==
    JsonObject(<< << "id", JsonNumber(w.id) >>,
                  << "name", JsonString(w.name) >>,
                  << "layout", LayoutNode_to_vec(w.layout) >>,
                  << "active_pane", JsonNumber(w.active_pane) >>,
                  << "panes", Panes_to_vec(w.panes) >>,
                  << "next_pane_id", JsonNumber(w.next_pane_id) >>,
                  << "zoomed", JsonBool(w.zoomed) >> >>)

Session_to_vec(s) ==
    JsonObject(<< << "id", JsonNumber(s.id) >>,
                  << "name", JsonString(s.name) >>,
                  << "windows",
                     JsonArray([i \in 1..Len(s.windows) |-> MuxWindow_to_vec(s.windows[i])]) >>,
                  << "active_window", JsonNumber(s.active_window) >>,
                  << "next_window_id", JsonNumber(s.next_window_id) >> >>)

Output(pane_id, data) == [t |-> "Output", pane_id |-> pane_id, data |-> data]
PaneExited(pane_id) == [t |-> "PaneExited", pane_id |-> pane_id]

\* #[derive(Serialize)] of ServerMessage
ServerMessage_to_vec(msg) ==
    CASE msg.t = "Output" ->
            JsonVariant("Output",
                JsonObject(<< << "pane_id", JsonNumber(msg.pane_id) >>,
                              << "data", JsonBytes(msg.data) >> >>))
      [] msg.t = "StateSync" -> JsonVariant("StateSync", Session_to_vec(msg.session))
      [] msg.t = "PaneExited" -> JsonVariant("PaneExited", JsonNumber(msg.pane_id))
      [] msg.t = "ServerShutdown" -> JsonString("ServerShutdown")

\* encode_message::<ServerMessage>
encode_server_message(msg) ==
    LET json == ServerMessage_to_vec(msg) IN to_be_bytes(Len(json)) \o json

(***************************************************************************)
(* SpecCodec: encode_message and decode_message applied to one message at  *)
(* a time, the frame being followed in the buffer by further bytes.        *)
(***************************************************************************)
\* sessions of one pane, of two windows and of a split window
CodecSessions ==
    {Session_new(0, "demo"),
     Session_new(LargeId, "work"),
     add_window(Session_new(0, "demo"), "1"),
     split_active(Session_new(0, "demo"), "Vertical").session,
     split_active(split_active(Session_new(0, "work"), "Horizontal").session,
                  "Vertical").session}

CodecServerMessages ==
    {ServerShutdown}
    \cup {PaneExited(id) : id \in {0, 42, LargeId}}
    \cup {Output(id, data) : id \in {0, LargeId}, data \in ByteSeqs}
    \cup {StateSync(s) : s \in CodecSessions}

\* serde_json::from_slice::<ServerMessage>
from_slice_server(bytes) ==
    IF \E m \in CodecServerMessages : ServerMessage_to_vec(m) = bytes
    THEN Some(CHOOSE m \in CodecServerMessages : ServerMessage_to_vec(m) = bytes)
    ELSE None

\* decode_message::<ServerMessage>
decode_server_message(buf) ==
    IF Len(buf) < 4 THEN None
    ELSE LET len   == from_be_bytes(SubSeq(buf, 1, 4))
             total == 4 + len
         IN  IF Len(buf) < total THEN None
             ELSE LET msg == from_slice_server(SubSeq(buf, 5, total)) IN
                  IF IsSome(msg) THEN Some(<< Unwrap(msg), total >>) ELSE None

\* what follows the frame in the buffer: nothing, the start of a length
\* prefix, a frame with an undecodable payload, a whole further frame
Tails == {<< >>, << 0, 0 >>, BadFrame, encode_message(Detach)}

NoCodec == [op |-> "new", side |-> "client", msg |-> Attach, frame |-> << >>,
            json |-> << >>, tail |-> << >>, res |-> None]

InitCodecVars == ccall = NoCodec

\* a client message is encoded and the buffer frame \o tail is decoded
CodecClient(msg, tail) ==
    \E frame \in {encode_message(msg)} :
        ccall' = [op |-> "decode", side |-> "client", msg |-> msg, frame |-> frame,
                  json |-> to_vec(msg), tail |-> tail,
                  res |-> decode_message(frame \o tail)]

\* a server message is encoded and the buffer frame \o tail is decoded
CodecServer(msg, tail) ==
    \E frame \in {encode_server_message(msg)} :
        ccall' = [op |-> "decode", side |-> "server", msg |-> msg, frame |-> frame,
                  json |-> ServerMessage_to_vec(msg), tail |-> tail,
                  res |-> decode_server_message(frame \o tail)]

(***************************************************************************)
(* SpecRace: several processes calling MuxServer::start, each system call  *)
(* of the start being one step, and dropping the MuxServer they obtained.  *)
(* sockfs maps every socket path that exists to the process whose listener *)
(* is bound to that file.                                                  *)
(***************************************************************************)
\* number of server processes
MaxServers == 2

Servers == 1..MaxServers

Idle == [pc |-> "idle", path |-> ""]

InitRaceVars ==
    /\ sockfs = EmptyMap
    /\ procs = [p \in Servers |-> Idle]

\* MuxServer::start is entered: ServerState::new computes the socket path
RaceStart(p, name) ==
    /\ procs[p].pc = "idle"
    /\ procs' = [procs EXCEPT ![p] = [pc |-> "exists", path |-> socket_path_for(name)]]
    /\ UNCHANGED sockfs

\* create_listener: path.exists()
RaceExists(p) ==
    /\ procs[p].pc = "exists"
    /\ procs' = [procs EXCEPT ![p].pc =
                    IF procs[p].path \in DOMAIN sockfs THEN "remove" ELSE "mkdir"]
    /\ UNCHANGED sockfs

\* create_listener: std::fs::remove_file(path), an error if the file is gone
RaceRemove(p) ==
    /\ procs[p].pc = "remove"
    /\ IF procs[p].path \in DOMAIN sockfs
       THEN /\ sockfs' = MapRemove(sockfs, procs[p].path)
            /\ procs' = [procs EXCEPT ![p].pc = "mkdir"]
       ELSE /\ procs' = [procs EXCEPT ![p].pc = "failed"]
            /\ UNCHANGED sockfs

\* create_listener: create_dir_all(parent)
RaceMkdir(p) ==
    /\ procs[p].pc = "mkdir"
    /\ procs' = [procs EXCEPT ![p].pc = "bind"]
    /\ UNCHANGED sockfs

\* create_listener: UnixListener::bind(path), an error if the path exists
RaceBind(p) ==
    /\ procs[p].pc = "bind"
    /\ IF procs[p].path \in DOMAIN sockfs
       THEN /\ procs' = [procs EXCEPT ![p].pc = "failed"]
            /\ UNCHANGED sockfs
       ELSE /\ sockfs' = MapInsert(sockfs, procs[p].path, p)
            /\ procs' = [procs EXCEPT ![p].pc = "nonblocking"]

\* listener.set_nonblocking(true)?, then the guard is made and start returns
RaceNonblocking(p, ok) ==
    /\ procs[p].pc = "nonblocking"
    /\ procs' = [procs EXCEPT ![p].pc = IF ok THEN "running" ELSE "failed"]
    /\ UNCHANGED sockfs

\* the MuxServer is dropped: its SocketGuard removes whatever file is at the
\* path and ignores the result
RaceDrop(p) ==
    /\ procs[p].pc = "running"
    /\ sockfs' = SocketGuard_drop_file(sockfs, SocketGuard_new(procs[p].path))
    /\ procs' = [procs EXCEPT ![p] = Idle]

\* start has returned its error to the caller
RaceFailed(p) ==
    /\ procs[p].pc = "failed"
    /\ procs' = [procs EXCEPT ![p] = Idle]
    /\ UNCHANGED sockfs

(***************************************************************************)
(* Specifications                                                          *)
(***************************************************************************)
InitIoVars ==
    InitSrvVars /\ InitInputVars /\ InitReaderVars /\ InitSessVars /\ InitLifeVars
    /\ InitNetVars
    /\ InitCodecVars
    /\ InitRaceVars

Init == InitWinVars /\ InitLayoutVars /\ InitCmdVars /\ InitIoVars

Next ==
    \/ \E p \in PaneIdArgs, d \in Direction : Split(p, d) /\ UNCHANGED <<layoutVars, cmdVars, ioVars>>
    \/ \E p \in PaneIdArgs : ClosePane(p) /\ UNCHANGED <<layoutVars, cmdVars, ioVars>>
    \/ NextPane /\ UNCHANGED <<layoutVars, cmdVars, ioVars>>
    \/ PrevPane /\ UNCHANGED <<layoutVars, cmdVars, ioVars>>
    \/ ToggleZoomed /\ UNCHANGED <<layoutVars, cmdVars, ioVars>>

Spec == Init /\ [][Next]_vars

InitLayout == Init

NextLayout ==
    \/ \E t \in TargetArgs, d \in Direction : TSplit(t, d) /\ UNCHANGED <<winVars, cmdVars, ioVars>>
    \/ \E t \in TargetArgs : TClose(t) /\ UNCHANGED <<winVars, cmdVars, ioVars>>
    \/ \E t \in TargetArgs, dl \in DeltaArgs : TResize(t, dl) /\ UNCHANGED <<winVars, cmdVars, ioVars>>
    \/ \E a \in Areas : TCalc(a) /\ UNCHANGED <<winVars, cmdVars, ioVars>>

SpecLayout == InitLayout /\ [][NextLayout]_vars

InitCmd ==
    /\ InitWinVars
    /\ InitLayoutVars
    /\ mux = InitMux
    /\ total_area \in CmdAreas
    /\ shown = NoCalc
    /\ InitIoVars

NextCmd ==
    \/ ExecuteCommand /\ UNCHANGED <<winVars, layoutVars, ioVars>>
    \/ PropagateResize /\ UNCHANGED <<winVars, layoutVars, ioVars>>

SpecCmd == InitCmd /\ [][NextCmd]_vars

InitSrv ==
    /\ InitWinVars
    /\ InitLayoutVars
    /\ InitCmdVars
    /\ \E name \in SessionNames : server = MuxServer_start(name)
    /\ hcall = NoCall
    /\ InitInputVars
    /\ InitReaderVars
    /\ InitSessVars
    /\ InitLifeVars
    /\ InitNetVars
    /\ InitCodecVars
    /\ InitRaceVars

NextSrv ==
    \/ HandleAttach /\ UNCHANGED <<winVars, layoutVars, cmdVars, inputVars, readerVars, sessVars, lifeVars, netVars, codecVars, raceVars>>
    \/ HandleDetach /\ UNCHANGED <<winVars, layoutVars, cmdVars, inputVars, readerVars, sessVars, lifeVars, netVars, codecVars, raceVars>>
    \/ HandleResize /\ UNCHANGED <<winVars, layoutVars, cmdVars, inputVars, readerVars, sessVars, lifeVars, netVars, codecVars, raceVars>>
    \/ HandleInput /\ UNCHANGED <<winVars, layoutVars, cmdVars, inputVars, readerVars, sessVars, lifeVars, netVars, codecVars, raceVars>>
    \/ HandleRequestPaneContent /\ UNCHANGED <<winVars, layoutVars, cmdVars, inputVars, readerVars, sessVars, lifeVars, netVars, codecVars, raceVars>>
    \/ \E c \in SrvCommands : HandleCommand(c) /\ UNCHANGED <<winVars, layoutVars, cmdVars, inputVars, readerVars, sessVars, lifeVars, netVars, codecVars, raceVars>>
    \/ SessAddWindow /\ UNCHANGED <<winVars, layoutVars, cmdVars, inputVars, readerVars, sessVars, lifeVars, netVars, codecVars, raceVars>>
    \/ \E i \in 0..MaxSrvIds : SessCloseWindow(i) /\ UNCHANGED <<winVars, layoutVars, cmdVars, inputVars, readerVars, sessVars, lifeVars, netVars, codecVars, raceVars>>
    \/ SessNextWindow /\ UNCHANGED <<winVars, layoutVars, cmdVars, inputVars, readerVars, sessVars, lifeVars, netVars, codecVars, raceVars>>
    \/ SessPrevWindow /\ UNCHANGED <<winVars, layoutVars, cmdVars, inputVars, readerVars, sessVars, lifeVars, netVars, codecVars, raceVars>>

SpecSrv == InitSrv /\ [][NextSrv]_vars

InitInput ==
    /\ InitWinVars
    /\ InitLayoutVars
    /\ InitCmdVars
    /\ InitSrvVars
    /\ InitInputVars
    /\ InitReaderVars
    /\ InitSessVars
    /\ InitLifeVars
    /\ InitNetVars
    /\ InitCodecVars
    /\ InitRaceVars

NextInput ==
    \/ \E step \in TickSteps : Tick(step) /\ UNCHANGED <<winVars, layoutVars, cmdVars, srvVars, readerVars, sessVars, lifeVars, netVars, codecVars, raceVars>>
    \/ \E key \in Keys, mods \in Mods :
          KeyPress(key, mods) /\ UNCHANGED <<winVars, layoutVars, cmdVars, srvVars, readerVars, sessVars, lifeVars, netVars, codecVars, raceVars>>

SpecInput == InitInput /\ [][NextInput]_vars

InitReader ==
    /\ InitWinVars
    /\ InitLayoutVars
    /\ InitCmdVars
    /\ InitSrvVars
    /\ InitInputVars
    /\ wire \in UNION {[1..n -> FrameMessages] : n \in 0..MaxFrames}
    /\ delivered = 0
    /\ mreader = MessageReader_new
    /\ got = << >>
    /\ rcall = NoRead
    /\ InitSessVars
    /\ InitLifeVars
    /\ InitNetVars
    /\ InitCodecVars
    /\ InitRaceVars

NextReader ==
    \/ \E n \in 1..Len(Frames(wire)) :
          ReadData(n) /\ UNCHANGED <<winVars, layoutVars, cmdVars, srvVars, inputVars, sessVars, lifeVars, netVars, codecVars, raceVars>>
    \/ ReadWouldBlock /\ UNCHANGED <<winVars, layoutVars, cmdVars, srvVars, inputVars, sessVars, lifeVars, netVars, codecVars, raceVars>>

SpecReader == InitReader /\ [][NextReader]_vars

InitSess == Init

NextSess ==
    \/ SessionAddWindow /\ UNCHANGED <<winVars, layoutVars, cmdVars, srvVars, inputVars, readerVars, lifeVars, netVars, codecVars, raceVars>>
    \/ \E idx \in SessIdxArgs :
          SessionCloseWindow(idx)
          /\ UNCHANGED <<winVars, layoutVars, cmdVars, srvVars, inputVars, readerVars, lifeVars, netVars, codecVars, raceVars>>
    \/ SessionNextWindow /\ UNCHANGED <<winVars, layoutVars, cmdVars, srvVars, inputVars, readerVars, lifeVars, netVars, codecVars, raceVars>>
    \/ SessionPrevWindow /\ UNCHANGED <<winVars, layoutVars, cmdVars, srvVars, inputVars, readerVars, lifeVars, netVars, codecVars, raceVars>>
    \/ \E dir \in Direction :
          SessionSplitActive(dir)
          /\ UNCHANGED <<winVars, layoutVars, cmdVars, srvVars, inputVars, readerVars, lifeVars, netVars, codecVars, raceVars>>

SpecSess == InitSess /\ [][NextSess]_vars

InitLife == Init

NextLife ==
    \/ \E name \in SessionNames, io \in IoOutcomes :
          LifeStart(name, io)
          /\ UNCHANGED <<winVars, layoutVars, cmdVars, srvVars, inputVars, readerVars, sessVars, netVars, codecVars, raceVars>>
    \/ LifeAccept /\ UNCHANGED <<winVars, layoutVars, cmdVars, srvVars, inputVars, readerVars, sessVars, netVars, codecVars, raceVars>>
    \/ \E i \in 1..MaxClients :
          LifeDropClient(i)
          /\ UNCHANGED <<winVars, layoutVars, cmdVars, srvVars, inputVars, readerVars, sessVars, netVars, codecVars, raceVars>>
    \/ LifeDrop /\ UNCHANGED <<winVars, layoutVars, cmdVars, srvVars, inputVars, readerVars, sessVars, netVars, codecVars, raceVars>>
    \/ \E failing \in SUBSET (1..MaxClients) :
          LifeShutdown(failing)
          /\ UNCHANGED <<winVars, layoutVars, cmdVars, srvVars, inputVars, readerVars, sessVars, netVars, codecVars, raceVars>>

SpecLife == InitLife /\ [][NextLife]_vars

InitNet == Init

NextNet ==
    \/ \E c \in Clients : \E frame \in ClientFrames(c) :
          ClientSend(c, frame)
          /\ UNCHANGED <<winVars, layoutVars, cmdVars, hcall, inputVars, readerVars, sessVars, lifeVars, codecVars, raceVars>>
    \/ \E c \in Clients, write_ok \in BOOLEAN : \E rd \in ReadOutcomes(c) :
          ProcessClient(c, rd, write_ok)
          /\ UNCHANGED <<winVars, layoutVars, cmdVars, hcall, inputVars, readerVars, sessVars, lifeVars, codecVars, raceVars>>

SpecNet == InitNet /\ [][NextNet]_vars

InitCodec == Init

NextCodec ==
    \/ \E msg \in WireMessages, tail \in Tails :
          CodecClient(msg, tail)
          /\ UNCHANGED <<winVars, layoutVars, cmdVars, srvVars, inputVars, readerVars, sessVars, lifeVars, netVars, raceVars>>
    \/ \E msg \in CodecServerMessages, tail \in Tails :
          CodecServer(msg, tail)
          /\ UNCHANGED <<winVars, layoutVars, cmdVars, srvVars, inputVars, readerVars, sessVars, lifeVars, netVars, raceVars>>

SpecCodec == InitCodec /\ [][NextCodec]_vars

InitRace == Init

NextRace ==
    \/ \E p \in Servers, name \in SessionNames : RaceStart(p, name) /\ UNCHANGED <<winVars, layoutVars, cmdVars, srvVars, inputVars, readerVars, sessVars, lifeVars, netVars, codecVars>>
    \/ \E p \in Servers : RaceExists(p) /\ UNCHANGED <<winVars, layoutVars, cmdVars, srvVars, inputVars, readerVars, sessVars, lifeVars, netVars, codecVars>>
    \/ \E p \in Servers : RaceRemove(p) /\ UNCHANGED <<winVars, layoutVars, cmdVars, srvVars, inputVars, readerVars, sessVars, lifeVars, netVars, codecVars>>
    \/ \E p \in Servers : RaceMkdir(p) /\ UNCHANGED <<winVars, layoutVars, cmdVars, srvVars, inputVars, readerVars, sessVars, lifeVars, netVars, codecVars>>
    \/ \E p \in Servers : RaceBind(p) /\ UNCHANGED <<winVars, layoutVars, cmdVars, srvVars, inputVars, readerVars, sessVars, lifeVars, netVars, codecVars>>
    \/ \E p \in Servers, ok \in BOOLEAN : RaceNonblocking(p, ok) /\ UNCHANGED <<winVars, layoutVars, cmdVars, srvVars, inputVars, readerVars, sessVars, lifeVars, netVars, codecVars>>
    \/ \E p \in Servers : RaceDrop(p) /\ UNCHANGED <<winVars, layoutVars, cmdVars, srvVars, inputVars, readerVars, sessVars, lifeVars, netVars, codecVars>>
    \/ \E p \in Servers : RaceFailed(p) /\ UNCHANGED <<winVars, layoutVars, cmdVars, srvVars, inputVars, readerVars, sessVars, lifeVars, netVars, codecVars>>

SpecRace == InitRace /\ [][NextRace]_vars

(***************************************************************************)
(* Properties of Spec (the window).                                        *)
(***************************************************************************)
NoDuplicates(s) == \A i, j \in 1..Len(s) : s[i] = s[j] => i = j

\* a split or close_pane call was made with a pane id absent from the layout
LastCallOnAbsentPane ==
    /\ last.op \in {"split", "close_pane"}
    /\ ~find_pane(last.pre.layout, last.pane_id)

\* C1: a split or close_pane call whose pane id is not in the layout returns
\* an error and leaves every field of the window as it was before the call.
C1_AtomicOnFailure ==
    LastCallOnAbsentPane => (~last.res.ok /\ win = last.pre)

\* C2: as long as close_pane has not reported the window empty, active_pane
\* is the id of a leaf of the layout tree.
C2_ActivePaneInLayout ==
    ~reportedEmpty => find_pane(win.layout, win.active_pane)

\* C3: as long as close_pane has not reported the window empty, the key set
\* of the panes map equals the set of pane ids of the layout tree.
C3_PanesMatchLayout ==
    ~reportedEmpty => DOMAIN win.panes = LeafIds(win.layout)

\* C9: each pane id occurs at most once among the leaves of the layout tree,
\* whatever pane ids split and close_pane were called with.
C9_UniqueIds == NoDuplicates(pane_ids(win.layout))

\* C9 witness: three leaves after a successful split, in a window where a
\* failed split has consumed id 1
C9_Witness ==
    /\ last.op = "split" /\ last.res.ok
    /\ pane_count(win.layout) = 3
    /\ 1 \notin everIds

\* C10: every id returned by split is greater than every id that was ever in
\* the window, and a closed pane id never appears again in the layout.
C10_IdsMonotonicNeverReused ==
    /\ (last.op = "split" /\ last.res.ok) => \A i \in last.ever : last.res.val > i
    /\ ~reportedEmpty => closedIds \cap LeafIds(win.layout) = {}

(***************************************************************************)
(* Properties of SpecLayout (the tree and its rects).                      *)
(***************************************************************************)
RECURSIVE SumAreas(_, _)
SumAreas(rects, ids) ==
    IF ids = {} THEN 0
    ELSE LET i == CHOOSE k \in ids : TRUE
         IN  rects[i].width * rects[i].height + SumAreas(rects, ids \ {i})

RECURSIVE Ratios(_)
Ratios(t) == IF t.kind = "Leaf" THEN {} ELSE {t.ratio} \cup Ratios(t.first) \cup Ratios(t.second)

\* C4: the areas of the rects returned by calculate_rects sum to the area
\* of the rectangle that was divided.
C4_PerfectTiling ==
    calc.done =>
        SumAreas(calc.rects, DOMAIN calc.rects) = calc.area.width * calc.area.height

\* C4 witness: three panes measured, one of them squeezed to width 0
C4_Witness ==
    /\ calc.done
    /\ calc.count = 3
    /\ \E i \in DOMAIN calc.rects : calc.rects[i].width = 0

C6_Bounded ==
    calc.done =>
        \A i \in DOMAIN calc.rects :
            LET r == calc.rects[i] IN
            /\ r.x >= calc.area.x
            /\ r.y >= calc.area.y
            /\ r.x + r.width <= calc.area.x + calc.area.width
            /\ r.y + r.height <= calc.area.y + calc.area.height

\* C6 witness: three panes measured under a root ratio resized to the
\* smallest ratio, in the largest area
C6_Witness ==
    /\ calc.done
    /\ calc.count = 3
    /\ calc.area.width = MaxDim
    /\ IsSome(tree) /\ Unwrap(tree).kind = "Split" /\ Unwrap(tree).ratio = MIN_RATIO

C7_MinimumPaneSize ==
    shown.done =>
        \A i \in DOMAIN shown.rects :
            shown.rects[i].width >= 1 /\ shown.rects[i].height >= 1

(***************************************************************************)
(* Properties of SpecSrv (the server's message handler).                   *)
(***************************************************************************)
\* C11: whenever the session has at least one window, active_window is an
\* index of windows.
C11_ActiveWindowInRange ==
    Len(server.session.windows) > 0 =>
        server.session.active_window < Len(server.session.windows)

\* close_window removed the second window (id 1) of a two-window session
\* and the active index is back on the remaining window
C11_Witness ==
    /\ hcall.op \in {"close_window", "handle_message"}
    /\ hcall.changed
    /\ server.session.next_window_id = 2
    /\ Len(server.session.windows) = 1
    /\ server.session.windows[1].id = 0
    /\ server.session.active_window = 0

\* C17: Attach, Input and Resize leave the session as it is; Attach is
\* answered with one StateSync of the current session (a session named N
\* with one window and the single pane 0 on a fresh server for N); Input,
\* Resize and Detach are answered with no message.
C17_ReadOnlyMessages ==
    hcall.op = "handle_message" =>
        /\ hcall.t \in {"Attach", "Input", "Resize"} => ~hcall.changed
        /\ hcall.t = "Attach" => hcall.responses = << StateSync(server.session) >>
        /\ \A n \in SessionNames :
              (hcall.t = "Attach" /\ server = MuxServer_start(n)) =>
                  /\ hcall.responses[1].session.name = n
                  /\ Len(hcall.responses[1].session.windows) = 1
                  /\ pane_ids(hcall.responses[1].session.windows[1].layout) = << 0 >>
        /\ hcall.t \in {"Input", "Resize", "Detach"} => hcall.responses = << >>

\* a Resize was handled on a session that commands have changed before
C17_Witness ==
    /\ hcall.op = "handle_message"
    /\ hcall.t = "Resize"
    /\ Len(server.session.windows) = 2
    /\ server.session.name = "work"

\* C18: a Command whose underlying operation returns an error is answered
\* with one StateSync and leaves the session as it was.
C18_ErrorsLeaveSessionUnchanged ==
    (hcall.op = "handle_message" /\ hcall.t = "Command" /\ hcall.failed) =>
        /\ ~hcall.changed
        /\ hcall.responses = << StateSync(server.session) >>

\* C19: the session holds no window whose last pane has been closed.
C19_NoEmptiedWindow ==
    \A i \in 1..Len(server.session.windows) :
        server.session.windows[i].panes # EmptyMap

EmitsCommand(res) == res.t = "Consumed" /\ IsSome(res.cmd)
\* the call read the clock no later than the timeout after the leader key
WithinTimeout(c) == c.pre.t = "WaitingForCommand" /\ c.at - c.pre.entered_at <= timeout_ms
\* the key string of the call's key is in the bindings map
Bound(c) ==
    /\ IsSome(key_to_string(c.key, c.mods))
    /\ Unwrap(key_to_string(c.key, c.mods)) \in DOMAIN default_bindings
LeaderCall(c) == is_leader_key(c.key, c.mods, LeaderKeyConfig_default)

\* C20: in Normal a leader key is consumed with no command and the state
\* becomes WaitingForCommand; a key within the timeout that is not a leader
\* key and whose key string is bound gives Consumed(Some(c)) with c the bound
\* command and the state Normal; in no other situation is a command emitted.
C20_LeaderSequence ==
    kcall.op = "process_mux_key" =>
        /\ (kcall.pre = Normal /\ LeaderCall(kcall)) =>
              kcall.res = Consumed(None) /\ istate = WaitingForCommand(kcall.at)
        /\ (WithinTimeout(kcall) /\ ~LeaderCall(kcall) /\ Bound(kcall)) =>
              /\ kcall.res =
                    Consumed(Some(default_bindings[Unwrap(key_to_string(kcall.key, kcall.mods))]))
              /\ istate = Normal
        /\ EmitsCommand(kcall.res) =>
              WithinTimeout(kcall) /\ ~LeaderCall(kcall) /\ Bound(kcall)

\* C20 witness: a bound key pressed exactly timeout_ms after the leader key
\* emits its command
C20_Witness ==
    /\ kcall.op = "process_mux_key"
    /\ kcall.pre.t = "WaitingForCommand"
    /\ kcall.at - kcall.pre.entered_at = timeout_ms
    /\ kcall.res = Consumed(Some([c |-> "SplitVertical"]))
    /\ istate = Normal

C22_DoubleTapPassthrough ==
    (kcall.op = "process_mux_key" /\ WithinTimeout(kcall) /\ LeaderCall(kcall)) =>
        /\ kcall.res = Forward
        /\ istate = Normal

\* C22 witness: the leader key pressed again half a timeout after the first
\* press is forwarded
C22_Witness ==
    /\ kcall.op = "process_mux_key"
    /\ kcall.pre.t = "WaitingForCommand"
    /\ kcall.at - kcall.pre.entered_at = timeout_ms \div 2
    /\ LeaderCall(kcall)
    /\ kcall.res = Forward
    /\ istate = Normal

\* the frame the reader is to return next, given that it has returned k messages
NextFrame(k) == IF k < Len(wire) THEN encode_message(wire[k + 1]) ELSE << >>

\* C15: read_message returns the messages in the order sent, each once
\* (the messages returned, re-encoded, followed by the buffer are exactly the
\* bytes read so far); a call returns Ok(None) exactly when the bytes
\* buffered are a strict prefix of the next frame, and then keeps them.
C15_FrameReassembly ==
    /\ got = SubSeq(wire, 1, Len(got))
    /\ Frames(got) \o mreader.buf = SubSeq(Frames(wire), 1, delivered)
    /\ rcall.op = "read_message" =>
          /\ rcall.res.ok
          /\ (rcall.res = Ok(None)) <=>
                (rcall.avail < Len(NextFrame(rcall.before)) \/ rcall.before = Len(wire))
          /\ rcall.res = Ok(None) => Len(got) = rcall.before /\ Len(mreader.buf) = rcall.avail
          /\ rcall.res # Ok(None) =>
                /\ Len(got) = rcall.before + 1
                /\ rcall.res = Ok(Some(wire[Len(got)]))
                /\ Len(mreader.buf) = rcall.avail - Len(NextFrame(rcall.before))

\* C15 witness: two frames arrived in reads that cut the first frame and
\* joined its rest to the second; the second message came out of the buffer
\* without a read
C15_Witness ==
    /\ Len(wire) = 2 /\ got = wire /\ wire[1] # wire[2]
    /\ rcall.op = "read_message" /\ ~rcall.did_read
    /\ rcall.res = Ok(Some(wire[2]))
    /\ mreader.buf = << >>

\* C24: closing a window whose index is lower than active_window leaves
\* active_window pointing to the window it pointed to before the close (the
\* index goes down by one).
C24_EarlierCloseKeepsActiveWindow ==
    (/\ scall.op = "close_window"
     /\ scall.res.ok
     /\ scall.pre.active_window < Len(scall.pre.windows)
     /\ scall.idx < scall.pre.active_window) =>
        /\ sess.active_window = scall.pre.active_window - 1
        /\ sess.windows[sess.active_window + 1]
              = scall.pre.windows[scall.pre.active_window + 1]

C27_SocketFileRemoved ==
    /\ (lcall.op = "start" /\ lcall.bound /\ ~lcall.ok) =>
          socket_path_for(lcall.name) \notin files
    /\ lcall.op \in {"drop", "shutdown"} => socket_path_for(lcall.name) \notin files

\* C28: after a shutdown every connection that was open when it began is
\* closed, ServerShutdown is the last message written to it (unless the
\* write failed) and nothing else was written to it meanwhile, the server is
\* no longer running and its socket file is unlinked.
C28_ShutdownBroadcast ==
    lcall.op = "shutdown" =>
        /\ lcall.ok
        /\ msrv = None
        /\ socket_path_for(lcall.name) \notin files
        /\ Len(conns) = Len(lcall.pre_conns)
        /\ \A i \in 1..Len(conns) :
              /\ ~conns[i].open
              /\ i \notin lcall.failing =>
                    conns[i].conn.written
                       = Append(lcall.pre_conns[i].conn.written, ServerShutdown)

\* C28 witness: a server with two connections has shut down and both
\* connections were written ServerShutdown
C28_Witness ==
    /\ lcall.op = "shutdown"
    /\ lcall.failing = {}
    /\ Len(lcall.pre_conns) = MaxClients
    /\ \A i \in 1..Len(conns) :
          /\ lcall.pre_conns[i].open
          /\ ~conns[i].open
          /\ conns[i].conn.written = << ServerShutdown >>
    /\ files = {}

\* the window of scenario S2 before its ClosePane: a new window whose active
\* pane was split vertically and then horizontally
S2_Window ==
    LET w1 == MuxWindow_split(MuxWindow_new(0, "test"), 0, "Vertical").win
    IN  MuxWindow_split(w1, w1.active_pane, "Horizontal").win

\* the server of scenario S2 before its ClosePane: a fresh server after
\* Command(SplitVertical) and Command(SplitHorizontal)
S2_AfterSplits(name) ==
    handle_command(handle_command(MuxServer_start(name), [c |-> "SplitVertical"]),
                   [c |-> "SplitHorizontal"])

\* the two splits of scenario S2 create pane 1 and then pane 2
S2_SplitsCreate(name) ==
    LET s0 == MuxServer_start(name).session
        r1 == split_active(s0, "Vertical")
        r2 == split_active(r1.session, "Horizontal")
    IN  r1.res = Ok(1) /\ r2.res = Ok(2)

\* two windows that differ in their names at most
SameWindow(w1, w2) == [w1 EXCEPT !.name = ""] = [w2 EXCEPT !.name = ""]

\* the last call closed the active pane of the window of scenario S2, and the
\* commands of the scenario act on the window of a server as the calls did
S2_ClosedActivePane ==
    /\ last.op = "close_pane"
    /\ last.pre = S2_Window
    /\ last.pane_id = S2_Window.active_pane
    /\ \A name \in SessionNames :
          /\ S2_SplitsCreate(name)
          /\ SameWindow(S2_AfterSplits(name).session.windows[1], S2_Window)
          /\ SameWindow(handle_command(S2_AfterSplits(name),
                                       [c |-> "ClosePane"]).session.windows[1], win)

\* C23 as stated: in scenario S2 the ClosePane closes pane 2 and leaves two
\* panes, active_pane 0 or 1, and the zoom flag false.
C23_ScenarioS2_AsStated ==
    S2_ClosedActivePane =>
        /\ last.pane_id = 2
        /\ 2 \notin SeqRange(pane_order(win))
        /\ pane_count(win.layout) = 2
        /\ win.active_pane \in {0, 1}
        /\ ~win.zoomed

\* C23: in scenario S2 the splits create pane 1 and pane 2 and leave the
\* focus on pane 0; the ClosePane closes pane 0, the active pane, and leaves
\* the panes 2 and 1 with active_pane 2, the first pane of the remaining
\* tree, and the zoom flag false.
C23_ScenarioS2 ==
    S2_ClosedActivePane =>
        /\ last.pane_id = 0
        /\ last.res = Ok(FALSE)
        /\ pane_order(win) = <<2, 1>>
        /\ pane_count(win.layout) = 2
        /\ win.active_pane = 2
        /\ ~win.zoomed

\* C23 witness: the window of scenario S2 after its ClosePane
C23_Witness ==
    /\ S2_ClosedActivePane
    /\ pane_order(last.pre) = <<0, 2, 1>>
    /\ last.pre.active_pane = 0
    /\ win.active_pane = 2
    /\ win.next_pane_id = 3

\* the tree with the ratio of the split nearest to the leaf target among its
\* ancestors moved by delta and clamped, and nothing else changed
RECURSIVE NearestSplitResized(_, _, _)
NearestSplitResized(node, target, delta) ==
    IF node.kind = "Leaf" THEN node
    ELSE IF find_pane(node.first, target) THEN
            IF node.first.kind = "Leaf"
            THEN [node EXCEPT !.ratio = F32Clamp(F32Add(@, delta), MIN_RATIO, MAX_RATIO)]
            ELSE [node EXCEPT !.first = NearestSplitResized(@, target, delta)]
    ELSE IF find_pane(node.second, target) THEN
            IF node.second.kind = "Leaf"
            THEN [node EXCEPT !.ratio = F32Clamp(F32Sub(@, delta), MIN_RATIO, MAX_RATIO)]
            ELSE [node EXCEPT !.second = NearestSplitResized(@, target, delta)]
    ELSE node

\* C26: resize_pane on a pane of the tree changes the ratio of the split
\* nearest to that leaf among its ancestors (ratio + delta when the leaf is in
\* first, ratio - delta when in second, clamped to [0.1, 0.9]) and leaves
\* every other ratio and the shape of the tree as they were.
C26_ResizeNearestSplit ==
    [][\A t \in TargetArgs, dl \in DeltaArgs :
          (IsSome(tree) /\ find_pane(Unwrap(tree), t) /\ TResize(t, dl)) =>
             tree' = Some(NearestSplitResized(Unwrap(tree), t, dl))]_vars

\* C29: execute_command(CloseWindow) removes the window at active_window and
\* the PTY state of that window's panes only: every PaneState that was
\* registered for a pane of another window is registered as before.
C29_CloseWindowKeepsOtherPtys ==
    [][\A ok \in SpawnOutcomes :
          (/\ mux.session.active_window < Len(mux.session.windows)
           /\ Execute([c |-> "CloseWindow"], ok)) =>
             LET idx == mux.session.active_window + 1 IN
             /\ mux'.session.windows = VecRemove(mux.session.windows, idx - 1)
             /\ \A i \in (1..Len(mux.session.windows)) \ {idx} :
                   \A p \in LeafIds(mux.session.windows[i].layout) :
                      (/\ p \in DOMAIN mux.panes
                       /\ mux.panes[p] = PaneState(mux.session.windows[i].id, p)) =>
                         /\ p \in DOMAIN mux'.panes
                         /\ mux'.panes[p] = mux.panes[p]]_vars

\* C30: DetachSession, ScrollbackMode and NavigatePane leave the session as
\* it is when they are applied through execute_command.
C30_SessionLevelNoOps ==
    [][\A cmd \in {[c |-> "DetachSession"], [c |-> "ScrollbackMode"]}
                    \cup {[c |-> "NavigatePane", dir |-> d] : d \in Direction},
          ok \in SpawnOutcomes :
          Execute(cmd, ok) => mux'.session = mux.session]_vars

\* the commands dispatched so far applied one after another to the server
\* as MuxServer::start created it
RECURSIVE Replay(_, _)
Replay(st, cmds) ==
    IF Len(cmds) = 0 THEN st ELSE Replay(handle_command(st, Head(cmds)), Tail(cmds))

\* the session after the first k dispatched commands
SessionAfter(k) == Replay(MuxServer_start("demo"), SubSeq(dispatched, 1, k)).session

\* C12: for a connected client, the messages written to it are one StateSync
\* per Attach or Command frame decoded from it, in the order of the frames,
\* none outstanding when the next frame is decoded, and the StateSync of a
\* Command carries the session after that command.
C12_PerClientOrdering ==
    \A c \in Clients :
        clients[c].open =>
            LET q == clients[c].answered
                w == clients[c].conn.written
                at == clients[c].synced
            IN  /\ Len(w) = Len(q)
                /\ \A k \in 1..Len(q) :
                      /\ q[k].t = "Command" =>
                            at[k] >= 1 /\ dispatched[at[k]] = q[k].cmd
                      /\ k > 1 => at[k - 1] <= at[k]
                      /\ w[k] = StateSync(SessionAfter(at[k]))

\* C12 witness: a client sent SplitVertical then ToggleZoom and holds two
\* StateSyncs, the second zoomed and with 2 panes
C12_Witness ==
    \E c \in Clients :
        /\ clients[c].open
        /\ clients[c].answered = << Command([c |-> "SplitVertical"]),
                                   Command([c |-> "ToggleZoom"]) >>
        /\ Len(clients[c].conn.written) = 2
        /\ ~clients[c].conn.written[1].session.windows[1].zoomed
        /\ clients[c].conn.written[2].session.windows[1].zoomed
        /\ pane_count(clients[c].conn.written[2].session.windows[1].layout) = 2

\* C13: whatever the interleaving of process_client calls, the session is
\* the result of the dispatched commands applied in dispatch order, and each
\* StateSync written is the session right after the commands dispatched up
\* to its own.
C13_SerializedDispatch ==
    /\ server.session = SessionAfter(Len(dispatched))
    /\ \A c \in Clients :
          /\ Len(clients[c].synced) = Len(clients[c].conn.written)
          /\ \A k \in 1..Len(clients[c].synced) :
                clients[c].conn.written[k] = StateSync(SessionAfter(clients[c].synced[k]))

\* C13 witness: one client's ToggleZoom was dispatched after the other
\* client's SplitVertical, and its StateSync shows both
C13_Witness ==
    /\ clients["b"].answered = << Command([c |-> "SplitVertical"]) >>
    /\ clients["a"].answered = << Command([c |-> "ToggleZoom"]) >>
    /\ dispatched = << [c |-> "SplitVertical"], [c |-> "ToggleZoom"] >>
    /\ Len(clients["a"].conn.written) = 1
    /\ clients["a"].conn.written[1].session.windows[1].zoomed
    /\ pane_count(clients["a"].conn.written[1].session.windows[1].layout) = 2

\* the buffer starts with a complete frame whose payload is no message
UndecodableFrameAtHead(buf) ==
    /\ Len(buf) >= 4
    /\ Len(buf) >= 4 + from_be_bytes(SubSeq(buf, 1, 4))
    /\ ~IsSome(from_slice(SubSeq(buf, 5, 4 + from_be_bytes(SubSeq(buf, 1, 4)))))

\* C14: a process_client call that finds a complete frame with an
\* undecodable payload at the head of the client's buffer returns false.
C14_DecodeErrorDropsClient ==
    (pcall.op = "process_client"
        /\ UndecodableFrameAtHead(clients[pcall.c].conn.reader.buf)) => ~pcall.ret

\* C16: a read of 0 bytes, a read error other than WouldBlock and a Detach
\* make process_client return false with the server state unchanged; a
\* WouldBlock read returns true and changes nothing; the server keeps running.
C16_ClientLossIsLocal ==
    /\ server.running
    /\ pcall.op = "process_client" =>
          /\ ((pcall.did_read /\ pcall.rd \in {"Closed", "IoErr"})
                  \/ pcall.msg = Some(Detach)) =>
                ~pcall.ret /\ ~pcall.changed /\ ~clients[pcall.c].open
          /\ (pcall.did_read /\ pcall.rd = "WouldBlock") =>
                /\ pcall.ret /\ clients[pcall.c].open
                /\ pcall.msg = None /\ ~pcall.changed /\ ~pcall.conn_changed

\* C16 witness: one client was dropped on a read of 0 bytes while the other
\* stays connected and the session still holds the 2 panes it had
C16_Witness ==
    /\ pcall.op = "process_client" /\ pcall.rd = "Closed" /\ pcall.did_read
    /\ ~pcall.ret
    /\ \E c \in Clients : c # pcall.c /\ clients[c].open /\ Len(clients[c].conn.written) = 1
    /\ pane_count(server.session.windows[1].layout) = 2

(***************************************************************************)
(* Algebraic properties of split.rs.                                       *)
(***************************************************************************)
\* the split of pane p of t with the new id q, then the close of q
SplitThenClose(t, p, d, q) ==
    LET s == split_pane(t, p, d, q) IN
    IF s.ok THEN close_pane(s.val[1], s.val[2]) ELSE s

\* C31: split-then-close round trip: for the tree t of every reachable state,
\* every pane p of t, every direction d and every id q that is not in t,
\* split_pane(t, p, d, q) succeeds and close_pane of its tree at q returns
\* Some(t'), with t' equal to t in shape, directions, ratios and pane ids.
C31_SplitCloseRoundTrip ==
    IsSome(tree) =>
        LET t == Unwrap(tree) IN
        \A p \in LeafIds(t) : \A d \in Direction :
            \A q \in (0..(MaxFreshId + 1)) \ LeafIds(t) :
                /\ split_pane(t, p, d, q).ok
                /\ SplitThenClose(t, p, d, q) = Ok(Some(t))

\* a tree of three panes whose root has been resized, with the round trip
\* made on a pane below the root
C31_Witness ==
    /\ IsSome(tree)
    /\ Unwrap(tree).kind = "Split"
    /\ Unwrap(tree).ratio # RatioHalf
    /\ pane_count(Unwrap(tree)) = 3
    /\ \E p \in LeafIds(Unwrap(tree)) : \E d \in Direction :
         \E q \in (0..(MaxFreshId + 1)) \ LeafIds(Unwrap(tree)) :
            /\ ~(Unwrap(tree).first.kind = "Leaf" /\ Unwrap(tree).first.pane_id = p)
            /\ ~(Unwrap(tree).second.kind = "Leaf" /\ Unwrap(tree).second.pane_id = p)
            /\ pane_count(split_pane(Unwrap(tree), p, d, q).val[1]) = 4
            /\ SplitThenClose(Unwrap(tree), p, d, q) = Ok(Some(Unwrap(tree)))

(***************************************************************************)
(* Navigation (window.rs next_pane / prev_pane).                           *)
(***************************************************************************)
\* the active panes after 1, 2, ..., k consecutive next_pane (forward) or
\* prev_pane calls on the window w
RECURSIVE Visits(_, _, _)
Visits(w, k, forward) ==
    IF k = 0 THEN << >>
    ELSE LET w1 == IF forward THEN MuxWindow_next_pane(w) ELSE MuxWindow_prev_pane(w)
         IN  << w1.active_pane >> \o Visits(w1, k - 1, forward)

\* the depth-first order read cyclically: k entries, the first one step
\* (forward or backward) from the one-based position i
Rotation(order, i, k, forward) ==
    [j \in 1..k |->
        order[(((i - 1) + (IF forward THEN j ELSE Len(order) * k - j)) % Len(order)) + 1]]

\* the window's active pane is a leaf of its layout
ActiveInLayout(w) == w.active_pane \in LeafIds(w.layout)

\* C32: navigation cycling: in every reachable window, with n the number of
\* panes of the layout, n consecutive next_pane calls (likewise n prev_pane
\* calls) visit the panes in depth-first order with wrap-around, starting
\* after (before) the active pane, and end on the pane they started from; on
\* a single-pane window one call changes nothing.
C32_NavigationCycling ==
    LET order == pane_order(win)
        n     == Len(order)
        fw    == Visits(win, n, TRUE)
        bw    == Visits(win, n, FALSE)
    IN  /\ fw[n] = win.active_pane
        /\ bw[n] = win.active_pane
        /\ \E i \in 1..n :
             /\ order[i] = win.active_pane
             /\ fw = Rotation(order, i, n, TRUE)
             /\ bw = Rotation(order, i, n, FALSE)
        /\ n = 1 => /\ MuxWindow_next_pane(win) = win
                    /\ MuxWindow_prev_pane(win) = win

\* the same cycling, for the windows whose active pane is in the layout
NavigationCyclesWhenActiveInLayout == ActiveInLayout(win) => C32_NavigationCycling

C34_ZoomClearedByMutation ==
    (last.op \in {"split", "close_pane"} /\ last.res.ok) => ~win.zoomed

\* a split or a close_pane of a zoomed window of two panes has succeeded
C34_Witness ==
    /\ last.op \in {"split", "close_pane"}
    /\ last.res.ok
    /\ last.pre.zoomed
    /\ pane_count(last.pre.layout) = 2
    /\ ~win.zoomed
    /\ win = (IF last.op = "split"
              THEN MuxWindow_split(last.pre, last.pane_id, last.dir).win
              ELSE MuxWindow_close_pane(last.pre, last.pane_id).win)

(***************************************************************************)
(* The empty session (session.rs).                                         *)
(***************************************************************************)
\* C35: empty session: after the last window is closed the session still
\* exists with zero windows; then active_win, active_win_mut (the same
\* lookup), active_pane_id and active_layout return None, next_window and
\* prev_window change nothing, split_active returns a SessionError without
\* changing the session, and a later add_window yields a one-window session
\* with active_window = 0.
C35_EmptySession ==
    /\ (scall.op = "close_window" /\ scall.res.ok /\ Len(scall.pre.windows) = 1) =>
          /\ Len(sess.windows) = 0
          /\ sess.id = scall.pre.id /\ sess.name = scall.pre.name
          /\ sess.next_window_id = scall.pre.next_window_id
    /\ Len(sess.windows) = 0 =>
          /\ active_win(sess) = None
          /\ active_pane_id(sess) = None
          /\ active_layout(sess) = None
    /\ (scall.op \in {"next_window", "prev_window"} /\ Len(scall.pre.windows) = 0) =>
          sess = scall.pre
    /\ (scall.op = "split_active" /\ Len(scall.pre.windows) = 0) =>
          /\ ~scall.res.ok
          /\ scall.res = SessionError("no active window")
          /\ sess = scall.pre
    /\ (scall.op = "add_window" /\ Len(scall.pre.windows) = 0) =>
          /\ Len(sess.windows) = 1
          /\ sess.active_window = 0

\* split_active has failed on a session emptied after windows were added
C35_Witness ==
    /\ scall.op = "split_active"
    /\ Len(scall.pre.windows) = 0
    /\ scall.pre.next_window_id > 1
    /\ ~scall.res.ok
    /\ sess = scall.pre
    /\ active_win(sess) = None

(***************************************************************************)
(* Focus after close_pane (window.rs).                                     *)
(***************************************************************************)
\* C36: focus policy of close_pane: close_pane(p), p being a pane of the
\* window, on a window with at least two panes returns false and removes p
\* from the layout and from the metadata; if p was the active pane,
\* active_pane becomes the first pane of the remaining layout in depth-first
\* order, otherwise active_pane is unchanged; close_pane on the sole pane
\* returns true.
C36_ClosePaneFocus ==
    (last.op = "close_pane" /\ last.res.ok) =>
        LET pre == last.pre
            p   == last.pane_id
        IN  /\ pane_count(pre.layout) >= 2 =>
                  /\ last.res = Ok(FALSE)
                  /\ LeafIds(win.layout) = LeafIds(pre.layout) \ {p}
                  /\ pane_count(win.layout) = pane_count(pre.layout) - 1
                  /\ p \notin DOMAIN win.panes
                  /\ \A q \in DOMAIN pre.panes \ {p} :
                        q \in DOMAIN win.panes /\ win.panes[q] = pre.panes[q]
                  /\ pre.active_pane = p => win.active_pane = pane_order(win)[1]
                  /\ pre.active_pane # p => win.active_pane = pre.active_pane
            /\ pane_count(pre.layout) = 1 => last.res = Ok(TRUE)

\* the active pane, last of three in depth-first order, has been closed and
\* the focus has moved to the first pane of the two that remain
C36_Witness ==
    /\ last.op = "close_pane"
    /\ last.res = Ok(FALSE)
    /\ pane_count(last.pre.layout) = 3
    /\ last.pane_id = last.pre.active_pane
    /\ pane_order(last.pre)[3] = last.pane_id
    /\ win.active_pane = pane_order(win)[1]
    /\ win.active_pane = pane_order(last.pre)[1]
    /\ last.pane_id \notin DOMAIN win.panes

\* C37: WaitingForCommand lasts for exactly one key event: whatever the next
\* key is (arriving after the timeout, a leader key, a bound key, an unbound
\* key or a key with no key string), the state after processing it is
\* Normal; an unbound key pressed within the timeout is consumed silently
\* (Consumed(None)): no command is emitted and the key is not forwarded.
C37_WaitingLastsOneKey ==
    (kcall.op = "process_mux_key" /\ kcall.pre.t = "WaitingForCommand") =>
        /\ istate = Normal
        /\ (WithinTimeout(kcall) /\ ~LeaderCall(kcall) /\ ~Bound(kcall)) =>
              /\ kcall.res = Consumed(None)
              /\ ~EmitsCommand(kcall.res)
              /\ kcall.res # Forward

\* a key with no key string, pressed within the timeout after the leader
\* key, has been consumed and the state is Normal again
C37_Witness ==
    /\ kcall.op = "process_mux_key"
    /\ WithinTimeout(kcall)
    /\ kcall.at > kcall.pre.entered_at
    /\ ~LeaderCall(kcall)
    /\ ~IsSome(key_to_string(kcall.key, kcall.mods))
    /\ kcall.res = Consumed(None)
    /\ istate = Normal

\* the outcome of resize_pane(t, target, delta) is an error exactly when
\* target is no leaf of t, and an error leaves the tree as it was
ResizeErrorIffAbsent(t, target, delta) ==
    \E r \in {resize_pane(t, target, delta)} :
        /\ r.res.ok <=> find_pane(t, target)
        /\ ~r.res.ok => (r.res = PaneNotFound(target) /\ r.tree = t)

\* C38: resize_pane returns Err(PaneNotFound) if and only if target is not a
\* leaf of the tree: for every tree that contains target, including a tree
\* that is a single leaf, it returns Ok, and on error the tree is unchanged.
C38_ResizeErrorIffAbsent ==
    [][\A target \in TargetArgs : \A delta \in DeltaArgs :
          (IsSome(tree) /\ TResize(target, delta)) =>
             ResizeErrorIffAbsent(Unwrap(tree), target, delta)]_vars

\* the same at every tree that has a split
ResizeErrorIffAbsentInSplitTrees ==
    (IsSome(tree) /\ Unwrap(tree).kind = "Split") =>
        \A target \in TargetArgs : \A delta \in DeltaArgs :
            ResizeErrorIffAbsent(Unwrap(tree), target, delta)

\* C39: one PTY state per pane: after any sequence of execute_command calls
\* in which every PTY spawn succeeds (the initial pane being registered),
\* MuxState.panes holds a separate entry for every pane of every window of
\* the session: the entry found for a pane is the one spawned for that pane
\* of that window, so creating a pane or a window has not replaced it.
C39_OnePtyStatePerPane ==
    \A i \in 1..Len(mux.session.windows) :
        \A p \in LeafIds(mux.session.windows[i].layout) :
            /\ p \in DOMAIN mux.panes
            /\ mux.panes[p] = PaneState(mux.session.windows[i].id, p)

\* C40: when two servers are started for the same session name, in any
\* interleaving of their startup and teardown steps, a server that is still
\* running never loses its socket through the other one: the socket path of
\* a running server exists and leads to that server until its own teardown,
\* and at most one server owns the name at a time.
C40_RunningServerKeepsSocket ==
    /\ \A p \in Servers :
          procs[p].pc = "running" =>
             /\ procs[p].path \in DOMAIN sockfs
             /\ sockfs[procs[p].path] = p
    /\ \A p \in Servers : \A q \in Servers \ {p} :
          ~(/\ procs[p].pc = "running"
            /\ procs[q].pc = "running"
            /\ procs[p].path = procs[q].path)

====
